---- MODULE Spec2Model ----
(***************************************************************************)
(* The audit trail of easyapplyai: the hash-chained ledger                 *)
(* (app/audit.py), its link hash (app/hashing.py), the audit table         *)
(* (app/storage.py) and the offline verifier (app/cli_verify_audit.py);    *)
(* the runs and jobs tables (app/storage.py), the run directories          *)
(* (app/settings.py) and the navigator that logs a run (app/navigator.py,  *)
(* app/extractors.py).                                                     *)
(*                                                                         *)
(* Modelling conventions                                                   *)
(*  - A hex digest string is modelled by the byte stream it is the SHA-256 *)
(*    of (an ideal, collision-free hash): [hex_of |-> <<prev, bytes>>].    *)
(*    The empty string "" is [hex_of |-> <<>>].                            *)
(*  - An Optional value is a sequence of length at most one (<<>> = None). *)
(*  - A Python dict `details` is its item list in insertion order, each    *)
(*    item <<key, python atom>>; its JSON text is the item list orjson     *)
(*    writes, each item <<key, JSON token>>, keys ascending. An item whose *)
(*    value is itself a dict is <<key, "dict", item list>>, written        *)
(*    <<key, "{}", item list>>.                                            *)
(*  - A file is the sequence of its "\n"-terminated lines.                 *)
(***************************************************************************)
EXTENDS Integers, Sequences, FiniteSets, TLC

\* ------------------------------------------------------------------ bounds
\* log_event calls started in one behaviour
MaxEvents == 3
\* lines of a file handed to the verifier directly
MaxLen == 3

Threads == {"t1", "t2"}
Agents  == {"a1", "a2"}
RunIds  == {"r1", "r2"}

\* ------------------------------------------------- values and JSON encoding
\* The line separator U+2028 inside a string is written <LS>.
PyAtoms == {"int 1", "int 2", "str boom", "str a<LS>b", "float nan",
            "float 1e16", "None"}

\* what orjson.dumps writes for one value: UTF-8 unescaped, nan as null
OrjsonAtom(v) ==
    CASE v = "int 1"      -> "1"
      [] v = "int 2"      -> "2"
      [] v = "str boom"   -> "'boom'"
      [] v = "str a<LS>b" -> "'a<LS>b'"
      [] v = "float nan"  -> "null"
      [] v = "float 1e16" -> "1e16"
      [] v = "None"       -> "null"

\* JSON tokens a line can hold; "1E16" is another spelling of 1e16
JsonTokens == {"1", "2", "'boom'", "'a<LS>b'", "null", "1e16", "1E16"}

\* what json.loads reads from one token
JsonLoadsAtom(tok) ==
    CASE tok = "1"        -> "int 1"
      [] tok = "2"        -> "int 2"
      [] tok = "'boom'"   -> "str boom"
      [] tok = "'a<LS>b'" -> "str a<LS>b"
      [] tok = "null"     -> "None"
      [] tok = "1e16"     -> "float 1e16"
      [] tok = "1E16"     -> "float 1e16"

\* keys of details in ascending lexicographic order (OPT_SORT_KEYS)
KeysAscending == <<"msg", "v", "x">>

ItemOf(items, k) == items[CHOOSE i \in DOMAIN items : items[i][1] = k]

SortKeysInsertionOrder(items) == items

SortKeys(items) ==
    LET present == SelectSeq(KeysAscending,
                             LAMBDA k : \E i \in DOMAIN items : items[i][1] = k)
    IN  [i \in DOMAIN present |-> ItemOf(items, present[i])]

RECURSIVE DumpsDetails(_)
\* orjson.dumps(details, option=OPT_SORT_KEYS): keys sorted at every level
DumpsDetails(details) ==
    LET sorted == SortKeys(details)
    IN  [i \in DOMAIN sorted |->
            IF Len(sorted[i]) = 3
              THEN <<sorted[i][1], "{}", DumpsDetails(sorted[i][3])>>
              ELSE <<sorted[i][1], OrjsonAtom(sorted[i][2])>>]

RECURSIVE LoadsDetails(_)
\* json.loads of a details object
LoadsDetails(text) ==
    [i \in DOMAIN text |->
        IF Len(text[i]) = 3
          THEN <<text[i][1], "dict", LoadsDetails(text[i][3])>>
          ELSE <<text[i][1], JsonLoadsAtom(text[i][2])>>]

\* orjson.dumps(record, option=OPT_SORT_KEYS): the record's JSON text
OrjsonDumps(payload) ==
    [f \in DOMAIN payload |->
        IF f = "details" THEN DumpsDetails(payload[f]) ELSE payload[f]]

\* json.loads(line) for a line holding one JSON object
JsonLoads(text) ==
    [f \in DOMAIN text |->
        IF f = "details" THEN LoadsDetails(text[f]) ELSE text[f]]

\* the text holds a character str.splitlines() breaks a line at
\* orjson.dumps raises TypeError on a value of a type it does not support
Encodable(details) ==
    \A i \in DOMAIN details : Len(details[i]) = 3 \/ details[i][2] \in PyAtoms

HasLineSep(text) ==
    \E i \in DOMAIN text.details : text.details[i][2] = "'a<LS>b'"

\* ------------------------------------------------------------------ hashing
EmptyStr == [hex_of |-> <<>>]

sha256(stream) == [hex_of |-> stream]

\* sha256(prev_hash.encode() + orjson.dumps(payload, OPT_SORT_KEYS)).hexdigest()
chain_next(prev_hash, payload) ==
    sha256(<<prev_hash, OrjsonDumps(payload)>>)

\* ------------------------------------------------------------------ storage
\* the audit table is the set of its rows; id is the autoincrement key
AuditRow(id, event) ==
    [id              |-> id,
     run_id          |-> event.run_id,
     step            |-> event.step,
     status          |-> event.status,
     ts_iso          |-> event.ts_iso,
     ts_ns           |-> event.ts_ns,
     input_digest    |-> event.input_digest,
     output_digest   |-> event.output_digest,
     prev_event_hash |-> event.prev_event_hash,
     event_hash      |-> event.event_hash,
     details_json    |-> DumpsDetails(event.details)]

NextId(rows) ==
    IF rows = {} THEN 1
    ELSE (CHOOSE r \in rows : \A q \in rows : q.id <= r.id).id + 1

append_audit(rows, event) == rows \cup {AuditRow(NextId(rows), event)}

RowsOf(rows, run_id) == {r \in rows : r.run_id = run_id}

get_last_audit_hash_by_ts(rows, run_id) ==
    LET mine == RowsOf(rows, run_id)
    IN  IF mine = {} THEN <<>>
        ELSE <<(CHOOSE r \in mine :
                   \A q \in mine : q.ts_ns < r.ts_ns
                                   \/ (q.ts_ns = r.ts_ns /\ q.id <= r.id)).event_hash>>

get_last_audit_hash_first(rows, run_id) ==
    LET mine == RowsOf(rows, run_id)
    IN  IF mine = {} THEN <<>>
        ELSE <<(CHOOSE r \in mine : \A q \in mine : r.id <= q.id).event_hash>>

\* select ... where run_id = ? order by id desc limit 1
get_last_audit_hash(rows, run_id) ==
    LET mine == RowsOf(rows, run_id)
    IN  IF mine = {} THEN <<>>
        ELSE <<(CHOOSE r \in mine : \A q \in mine : q.id <= r.id).event_hash>>

\* ----------------------------------------------------------------- verifier
BlankLine   == [kind |-> "blank"]
GarbageLine == [kind |-> "garbage"]
JsonLine(text) == [kind |-> "json", text |-> text]

RECURSIVE splitlines(_)
\* read_text().splitlines(): a written line that holds a line separator
\* comes back as two pieces, neither of them a JSON document
splitlines(file) ==
    IF file = <<>> THEN <<>>
    ELSE LET line == Head(file)
         IN  (IF line.kind = "json" /\ HasLineSep(line.text)
              THEN <<GarbageLine, GarbageLine>>
              ELSE <<line>>) \o splitlines(Tail(file))

WithoutEventHash(ev) == [k \in DOMAIN ev \ {"event_hash"} |-> ev[k]]

Raised == [outcome |-> "raise"]

VerifyResultEmptyInvalid(events, break_index) ==
    [outcome     |-> "return",
     run_id      |-> IF events /= <<>> THEN <<events[1].run_id>> ELSE <<>>,
     events      |-> Len(events),
     valid       |-> break_index = <<>> /\ events /= <<>>,
     break_index |-> IF events = <<>> /\ break_index = <<>> THEN <<0>> ELSE break_index]

\* the dict verify_chain returns
VerifyResult(events, break_index) ==
    [outcome     |-> "return",
     run_id      |-> IF events /= <<>> THEN <<events[1].run_id>> ELSE <<>>,
     events      |-> Len(events),
     valid       |-> break_index = <<>>,
     break_index |-> break_index]

RECURSIVE VerifyLoopNoPrevCheck(_, _, _, _)
VerifyLoopNoPrevCheck(lines, idx, prev, events) ==
    IF idx >= Len(lines) THEN VerifyResult(events, <<>>)
    ELSE LET line == lines[idx + 1]
         IN  IF line.kind = "blank"
               THEN VerifyLoopNoPrevCheck(lines, idx + 1, prev, events)
             ELSE IF line.kind = "garbage" THEN Raised
             ELSE LET ev == JsonLoads(line.text)
                  IN  IF chain_next(ev.prev_event_hash, WithoutEventHash(ev))
                            /= ev.event_hash
                        THEN VerifyResult(events, <<idx>>)
                      ELSE VerifyLoopNoPrevCheck(lines, idx + 1, ev.event_hash,
                                                 Append(events, ev))

RECURSIVE VerifyLoop(_, _, _, _)
\* the for loop of verify_chain; idx is the zero-based enumerate index
VerifyLoop(lines, idx, prev, events) ==
    IF idx >= Len(lines) THEN VerifyResult(events, <<>>)
    ELSE LET line == lines[idx + 1]
         IN  IF line.kind = "blank"
               THEN VerifyLoop(lines, idx + 1, prev, events)
             ELSE IF line.kind = "garbage" THEN Raised
             ELSE LET ev == JsonLoads(line.text)
                  IN  IF ev.prev_event_hash /= prev
                        THEN VerifyResult(events, <<idx>>)
                      ELSE IF chain_next(ev.prev_event_hash, WithoutEventHash(ev))
                                /= ev.event_hash
                        THEN VerifyResult(events, <<idx>>)
                      ELSE VerifyLoop(lines, idx + 1, ev.event_hash,
                                      Append(events, ev))

verify_chain(file) == VerifyLoop(splitlines(file), 0, EmptyStr, <<>>)

\* ------------------------------------------------------------------- ledger
VARIABLES
    cache,      \* cache[a]: _last_hash_by_run of agent a, a dict run_id -> hash
    files,      \* files[d]: the lines of d/audit.jsonl
    store,      \* the rows of the audit table
    th,         \* th[t]: where thread t is in log_event, with its locals
    returned,   \* returned[a]: the events log_event has returned on agent a
    live,       \* live[r]: the event_hash of the last event returned for r
    appendLog,  \* the rows inserted into the audit table, in insertion order
    nstarted,   \* log_event calls started so far
    outcome,    \* outcome[t]: how the last log_event call of thread t ended
    vfile,      \* the file handed to the verifier
    vbase,      \* the ledger-written file vfile was taken from
    vstage,     \* "ledger", "taken", "tampered" or "verified"
    tamper,     \* what was done to vfile: [op |-> ..., ...]
    vres,       \* what verify_chain returned (or that it raised)
    vexit,      \* Optional exit code of the verifier CLI
    cli,        \* the command line of the verifier CLI and what it resolved
    calc,       \* a pure function at work: its inputs and, once applied, results
    jobs,       \* the rows of the jobs table
    upserts,    \* the upsert_job calls made, in order, each with the id it returned
    nav         \* NavigatorAgent.run: where it is, with its inputs and locals

ledgerVars == <<cache, files, store, th, returned, live, appendLog, nstarted,
               outcome>>
verifierVars == <<vfile, vbase, vstage, tamper, vres, vexit, cli>>
appVars == <<calc, jobs, upserts, nav>>
vars == <<cache, files, store, th, returned, live, appendLog, nstarted, outcome,
          vfile, vbase, vstage, tamper, vres, vexit, cli, calc, jobs, upserts, nav>>

\* the path parts pathlib keeps of base / run_id: a trailing slash is
\* dropped, and "" adds no part
PathUnder(run_id) ==
    IF run_id = "" THEN <<>>
    ELSE IF run_id = "r1/" THEN <<"r1">>
    ELSE <<run_id>>

\* base / run_id
artifacts_dir_for(run_id) == <<"artifacts">> \o PathUnder(run_id)
Dirs == {artifacts_dir_for(r) : r \in RunIds \cup {""}}

TsIsoVals == {"2026-01-01T00:00:00Z"}
TsNsVals  == {1, 2}

\* what callers pass as (step, status, details)
SeqInputs ==
    {[step |-> "s1", status |-> "ok",    details |-> <<>>],
     [step |-> "s3", status |-> "error", details |-> <<<<"msg", "str boom">>>>],
     [step |-> "s4", status |-> "ok",    details |-> <<<<"msg", "str a<LS>b">>>>]}

TamperInputs ==
    {[step |-> "s2", status |-> "ok", details |-> <<<<"x", "int 1">>>>],
     [step |-> "s5", status |-> "ok", details |-> <<<<"v", "float 1e16">>>>],
     [step |-> "s4", status |-> "ok", details |-> <<<<"msg", "str a<LS>b">>>>]}

Idle == [pc |-> "idle"]

NoOutcome == [kind |-> "none"]
NoCli == [arg |-> "none"]
NoCalc == [op |-> "none"]
NavOff == [pc |-> "off"]

Init ==
    /\ cache = [a \in Agents |-> <<>>]
    /\ files = [d \in Dirs |-> <<>>]
    /\ store = {}
    /\ th = [t \in Threads |-> Idle]
    /\ returned = [a \in Agents |-> <<>>]
    /\ live = <<>>
    /\ appendLog = <<>>
    /\ nstarted = 0
    /\ outcome = [t \in Threads |-> NoOutcome]
    /\ cli = NoCli
    /\ calc = NoCalc
    /\ jobs = {}
    /\ upserts = <<>>
    /\ nav = NavOff
    /\ vfile = <<>>
    /\ vbase = <<>>
    /\ vstage = "ledger"
    /\ tamper = [op |-> "none"]
    /\ vres = [outcome |-> "none"]
    /\ vexit = <<>>

resolve_prev_hash_no_recovery(cache_a, rows, run_id) ==
    IF run_id \in DOMAIN cache_a THEN cache_a[run_id] ELSE EmptyStr

\* the cache entry if there is one, else the store's last hash, else ""
resolve_prev_hash(cache_a, rows, run_id) ==
    IF run_id \in DOMAIN cache_a THEN cache_a[run_id]
    ELSE LET last == get_last_audit_hash(rows, run_id)
         IN  IF last = <<>> \/ last[1] = EmptyStr THEN EmptyStr ELSE last[1]

\* what a log_event call on agent a can change: the files, the rows and the
\* agent's cache
Sinks(a) == [files |-> files, store |-> store, cache |-> cache[a]]

\* log_event raised: where, which call, the sinks as the call found them
\* and as it leaves them
RaisedAt(at, c) ==
    [kind |-> "raised", at |-> at, agent |-> c.agent, run_id |-> c.run_id,
     before |-> c.before, after |-> Sinks(c.agent)]

\* log_event returned event
Returned(c) ==
    [kind |-> "returned", agent |-> c.agent, run_id |-> c.run_id,
     event |-> c.event]

\* log_event lines 36-41: the call starts and stamps its clocks
Call(t, a, run_id, input, ts_iso, ts_ns) ==
    /\ vstage = "ledger"
    /\ th[t].pc = "idle"
    /\ nstarted < MaxEvents
    /\ nstarted' = nstarted + 1
    /\ th' = [th EXCEPT ![t] =
                [pc |-> "resolve", agent |-> a, run_id |-> run_id,
                 step |-> input.step, status |-> input.status,
                 details |-> input.details, ts_iso |-> ts_iso, ts_ns |-> ts_ns,
                 before |-> Sinks(a)]]
    /\ outcome' = [outcome EXCEPT ![t] = NoOutcome]
    /\ UNCHANGED <<cache, files, store, returned, live, appendLog>>
    /\ UNCHANGED verifierVars
    /\ UNCHANGED appVars

ResolveUnvalidated(t) ==
    /\ th[t].pc = "resolve"
    /\ LET c == th[t]
           prev_hash == resolve_prev_hash(cache[c.agent], store, c.run_id)
           event_dict ==
               [run_id |-> c.run_id, step |-> c.step, status |-> c.status,
                ts_iso |-> c.ts_iso, ts_ns |-> c.ts_ns,
                input_digest |-> <<>>, output_digest |-> <<>>,
                artifact_paths |-> <<>>, details |-> c.details,
                prev_event_hash |-> prev_hash]
           event_hash == chain_next(prev_hash, event_dict)
           event_full == [event_hash |-> event_hash] @@ event_dict
       IN  IF ~Encodable(c.details)
             THEN /\ th' = [th EXCEPT ![t] = Idle]
                  /\ outcome' = [outcome EXCEPT ![t] = RaisedAt("encode", c)]
           ELSE /\ th' = [th EXCEPT ![t] =
                          [pc |-> "file", agent |-> c.agent, run_id |-> c.run_id,
                           recovered |-> c.run_id \notin DOMAIN cache[c.agent],
                           event |-> event_full, before |-> c.before]]
                /\ UNCHANGED outcome
    /\ UNCHANGED <<cache, files, store, returned, live, appendLog, nstarted>>
    /\ UNCHANGED verifierVars
    /\ UNCHANGED appVars

ResolveMemoising(t) ==
    /\ th[t].pc = "resolve"
    /\ LET c == th[t]
           prev_hash == resolve_prev_hash(cache[c.agent], store, c.run_id)
           memo == [cache EXCEPT ![c.agent] = (c.run_id :> prev_hash) @@ @]
           event_dict ==
               [run_id |-> c.run_id, step |-> c.step, status |-> c.status,
                ts_iso |-> c.ts_iso, ts_ns |-> c.ts_ns,
                input_digest |-> <<>>, output_digest |-> <<>>,
                artifact_paths |-> <<>>, details |-> c.details,
                prev_event_hash |-> prev_hash]
           event_hash == chain_next(prev_hash, event_dict)
           event_full == [event_hash |-> event_hash] @@ event_dict
       IN  /\ cache' = memo
           /\ IF ~Encodable(c.details)
                 THEN /\ th' = [th EXCEPT ![t] = Idle]
                      /\ outcome' = [outcome EXCEPT ![t] =
                             [RaisedAt("encode", c) EXCEPT !.after.cache = memo[c.agent]]]
               ELSE IF c.status \notin {"ok", "error"}
                 THEN /\ th' = [th EXCEPT ![t] = Idle]
                      /\ outcome' = [outcome EXCEPT ![t] =
                             [RaisedAt("validate", c) EXCEPT !.after.cache = memo[c.agent]]]
               ELSE /\ th' = [th EXCEPT ![t] =
                              [pc |-> "file", agent |-> c.agent, run_id |-> c.run_id,
                               recovered |-> c.run_id \notin DOMAIN cache[c.agent],
                               event |-> event_full, before |-> c.before]]
                    /\ UNCHANGED outcome
    /\ UNCHANGED <<files, store, returned, live, appendLog, nstarted>>
    /\ UNCHANGED verifierVars
    /\ UNCHANGED appVars

\* log_event lines 43-59: resolve the previous hash, build and hash the event,
\* validate it as an AuditEvent
Resolve(t) ==
    /\ th[t].pc = "resolve"
    /\ LET c == th[t]
           prev_hash == resolve_prev_hash(cache[c.agent], store, c.run_id)
           event_dict ==
               [run_id |-> c.run_id, step |-> c.step, status |-> c.status,
                ts_iso |-> c.ts_iso, ts_ns |-> c.ts_ns,
                input_digest |-> <<>>, output_digest |-> <<>>,
                artifact_paths |-> <<>>, details |-> c.details,
                prev_event_hash |-> prev_hash]
           event_hash == chain_next(prev_hash, event_dict)
           event_full == [event_hash |-> event_hash] @@ event_dict
       IN  IF ~Encodable(c.details)
             THEN /\ th' = [th EXCEPT ![t] = Idle]
                  /\ outcome' = [outcome EXCEPT ![t] = RaisedAt("encode", c)]
           ELSE IF c.status \notin {"ok", "error"}
             THEN /\ th' = [th EXCEPT ![t] = Idle]
                  /\ outcome' = [outcome EXCEPT ![t] = RaisedAt("validate", c)]
           ELSE /\ th' = [th EXCEPT ![t] =
                          [pc |-> "file", agent |-> c.agent, run_id |-> c.run_id,
                           recovered |-> c.run_id \notin DOMAIN cache[c.agent],
                           event |-> event_full, before |-> c.before]]
                /\ UNCHANGED outcome
    /\ UNCHANGED <<cache, files, store, returned, live, appendLog, nstarted>>
    /\ UNCHANGED verifierVars
    /\ UNCHANGED appVars

AppendFileTruncating(t) ==
    /\ th[t].pc = "file"
    /\ LET c == th[t]
           line == OrjsonDumps(c.event)
       IN  files' = [files EXCEPT ![artifacts_dir_for(c.run_id)] = <<JsonLine(line)>>]
    /\ th' = [th EXCEPT ![t].pc = "store"]
    /\ UNCHANGED <<cache, store, returned, live, appendLog, nstarted, outcome>>
    /\ UNCHANGED verifierVars
    /\ UNCHANGED appVars

AppendFileNotWritten(t) ==
    /\ th[t].pc = "file"
    /\ th' = [th EXCEPT ![t].pc = "store"]
    /\ UNCHANGED <<cache, files, store, returned, live, appendLog, nstarted, outcome>>
    /\ UNCHANGED verifierVars
    /\ UNCHANGED appVars

\* log_event lines 61-66: one line appended to <run dir>/audit.jsonl
AppendFile(t) ==
    /\ th[t].pc = "file"
    /\ LET c == th[t]
           line == OrjsonDumps(c.event)
       IN  files' = [files EXCEPT ![artifacts_dir_for(c.run_id)] =
                        Append(@, JsonLine(line))]
    /\ th' = [th EXCEPT ![t].pc = "store"]
    /\ UNCHANGED <<cache, store, returned, live, appendLog, nstarted, outcome>>
    /\ UNCHANGED verifierVars
    /\ UNCHANGED appVars

AppendAuditNoCommit(t) ==
    /\ th[t].pc = "store"
    /\ th' = [th EXCEPT ![t].pc = "cache"]
    /\ UNCHANGED <<cache, files, store, returned, live, appendLog, nstarted, outcome>>
    /\ UNCHANGED verifierVars
    /\ UNCHANGED appVars

\* log_event line 69: storage.append_audit(event_full)
AppendAudit(t) ==
    /\ th[t].pc = "store"
    /\ store' = append_audit(store, th[t].event)
    /\ appendLog' = Append(appendLog, th[t].event)
    /\ th' = [th EXCEPT ![t].pc = "cache"]
    /\ UNCHANGED <<cache, files, returned, live, nstarted, outcome>>
    /\ UNCHANGED verifierVars
    /\ UNCHANGED appVars

UpdateCacheSkipped(t) ==
    /\ th[t].pc = "cache"
    /\ LET c == th[t]
       IN  /\ cache' = [cache EXCEPT ![c.agent] =
                          IF c.run_id \in DOMAIN @ THEN @
                          ELSE (c.run_id :> c.event.event_hash) @@ @]
           /\ returned' = [returned EXCEPT ![c.agent] = Append(@, c.event)]
           /\ live' = (c.run_id :> c.event.event_hash) @@ live
    /\ th' = [th EXCEPT ![t] = Idle]
    /\ outcome' = [outcome EXCEPT ![t] = Returned(th[t])]
    /\ UNCHANGED <<files, store, appendLog, nstarted>>
    /\ UNCHANGED verifierVars
    /\ UNCHANGED appVars

\* log_event lines 71-74: the cache entry is set and the event returned
UpdateCache(t) ==
    /\ th[t].pc = "cache"
    /\ LET c == th[t]
       IN  /\ cache' = [cache EXCEPT ![c.agent] =
                          (c.run_id :> c.event.event_hash) @@ @]
           /\ returned' = [returned EXCEPT ![c.agent] = Append(@, c.event)]
           /\ live' = (c.run_id :> c.event.event_hash) @@ live
    /\ th' = [th EXCEPT ![t] = Idle]
    /\ outcome' = [outcome EXCEPT ![t] = Returned(th[t])]
    /\ UNCHANGED <<files, store, appendLog, nstarted>>
    /\ UNCHANGED verifierVars
    /\ UNCHANGED appVars

\* AuditTrailAgent.__init__ in a new process: the agent starts over with an
\* empty cache; files and store stay
Restart(a) ==
    /\ vstage = "ledger"
    /\ \A t \in Threads : th[t].pc = "idle"
    /\ cache[a] /= <<>>
    /\ cache' = [cache EXCEPT ![a] = <<>>]
    /\ returned' = [returned EXCEPT ![a] = <<>>]
    /\ UNCHANGED <<files, store, th, live, appendLog, nstarted, outcome>>
    /\ UNCHANGED verifierVars
    /\ UNCHANGED appVars

\* ------------------------------------------- one agent, one call at a time
CallSeq ==
    \E run_id \in RunIds, input \in SeqInputs, ts_iso \in TsIsoVals, ts_ns \in TsNsVals :
        Call("t1", "a1", run_id, input, ts_iso, ts_ns)

NextSeq ==
    \/ CallSeq
    \/ Resolve("t1")
    \/ AppendFile("t1")
    \/ AppendAudit("t1")
    \/ UpdateCache("t1")
    \/ Restart("a1")

SpecSeq == Init /\ [][NextSeq]_vars

\* ------------------------------ two threads of one agent, one run each
CallPar ==
    \E t \in Threads, run_id \in RunIds, input \in SeqInputs,
       ts_iso \in TsIsoVals, ts_ns \in TsNsVals :
        /\ \A u \in Threads \ {t} : th[u].pc /= "idle" => th[u].run_id /= run_id
        /\ Call(t, "a1", run_id, input, ts_iso, ts_ns)

NextPar ==
    \/ CallPar
    \/ \E t \in Threads : Resolve(t)
    \/ \E t \in Threads : AppendFile(t)
    \/ \E t \in Threads : AppendAudit(t)
    \/ \E t \in Threads : UpdateCache(t)

SpecPar == Init /\ [][NextPar]_vars

\* ------------------------------------ any agent, any thread, any run
CallAny ==
    \E t \in Threads, a \in Agents, run_id \in RunIds, input \in SeqInputs,
       ts_iso \in TsIsoVals, ts_ns \in TsNsVals :
        Call(t, a, run_id, input, ts_iso, ts_ns)

Next ==
    \/ CallAny
    \/ \E t \in Threads : Resolve(t)
    \/ \E t \in Threads : AppendFile(t)
    \/ \E t \in Threads : AppendAudit(t)
    \/ \E t \in Threads : UpdateCache(t)
    \/ \E a \in Agents : Restart(a)

Spec == Init /\ [][Next]_vars

\* ------------------------- callers that overlap on one run, no lock taken
\* what each of the two callers logs
RaceInput ==
    [t1 |-> [step |-> "s1", status |-> "ok",    details |-> <<>>],
     t2 |-> [step |-> "s3", status |-> "error", details |-> <<<<"msg", "str boom">>>>]]

CallRace ==
    \E t \in Threads, a \in Agents, ts_iso \in TsIsoVals :
        Call(t, a, "r1", RaceInput[t], ts_iso, 1)

NextRace ==
    \/ CallRace
    \/ \E t \in Threads : Resolve(t)
    \/ \E t \in Threads : AppendFile(t)
    \/ \E t \in Threads : AppendAudit(t)
    \/ \E t \in Threads : UpdateCache(t)

SpecRace == Init /\ [][NextRace]_vars

\* --------------------------------------------------- the verifier at work
\* cli_verify_audit.main lines 57-62 on an audit.jsonl that exists
main(file) ==
    LET result == verify_chain(file)
    IN  [result |-> result,
         exit   |-> IF result.outcome = "raise" THEN <<>>
                    ELSE IF result.valid THEN <<0>> ELSE <<1>>]

Main ==
    /\ vstage \in {"taken", "tampered"}
    /\ vres' = main(vfile).result
    /\ vexit' = main(vfile).exit
    /\ vstage' = "verified"
    /\ UNCHANGED <<vfile, vbase, tamper, cli>>
    /\ UNCHANGED ledgerVars
    /\ UNCHANGED appVars

\* a copy of one run's audit.jsonl is taken for verification
Take(run_id) ==
    /\ vstage = "ledger"
    /\ \A t \in Threads : th[t].pc = "idle"
    /\ vfile' = files[artifacts_dir_for(run_id)]
    /\ vbase' = files[artifacts_dir_for(run_id)]
    /\ vstage' = "taken"
    /\ UNCHANGED <<tamper, vres, vexit, cli>>
    /\ UNCHANGED ledgerVars
    /\ UNCHANGED appVars

\* the tokens one changed byte turns a token into
ByteNeighbours(tok) ==
    CASE tok = "1"    -> {"2"}
      [] tok = "2"    -> {"1"}
      [] tok = "1e16" -> {"1E16"}
      [] tok = "1E16" -> {"1e16"}
      [] OTHER        -> {}

\* the lines one changed byte inside the details object turns a line into:
\* another value, another spelling of the same value, or no JSON at all
DetailsByteChanges(line) ==
    {GarbageLine} \cup
    {JsonLine([line.text EXCEPT !.details[i][2] = tok]) :
        <<i, tok>> \in {<<i, tok>> \in (DOMAIN line.text.details) \X JsonTokens :
                           tok \in ByteNeighbours(line.text.details[i][2])}}

BogusHash == sha256(<<EmptyStr, [forged |-> TRUE]>>)

HashesIn(file) ==
    {file[i].text.event_hash : i \in {j \in DOMAIN file : file[j].kind = "json"}}

\* one byte of the details of the event at (zero-based) position pos changes
TamperDetails(pos) ==
    /\ vstage = "taken"
    /\ pos + 1 \in DOMAIN vfile
    /\ \E changed \in DetailsByteChanges(vfile[pos + 1]) :
           vfile' = [vfile EXCEPT ![pos + 1] = changed]
    /\ tamper' = [op |-> "details", pos |-> pos]
    /\ vstage' = "tampered"
    /\ UNCHANGED <<vbase, vres, vexit, cli>>
    /\ UNCHANGED ledgerVars
    /\ UNCHANGED appVars

\* only the prev_event_hash of the event at position pos changes
TamperPrev(pos) ==
    /\ vstage = "taken"
    /\ pos + 1 \in DOMAIN vfile
    /\ \E h \in (HashesIn(vfile) \cup {EmptyStr, BogusHash})
                   \ {vfile[pos + 1].text.prev_event_hash} :
           vfile' = [vfile EXCEPT ![pos + 1].text.prev_event_hash = h]
    /\ tamper' = [op |-> "prev", pos |-> pos]
    /\ vstage' = "tampered"
    /\ UNCHANGED <<vbase, vres, vexit, cli>>
    /\ UNCHANGED ledgerVars
    /\ UNCHANGED appVars

Keep(file, removed) ==
    LET F[i \in 0..Len(file)] ==
            IF i = 0 THEN <<>>
            ELSE IF i \in removed THEN F[i - 1] ELSE Append(F[i - 1], file[i])
    IN  F[Len(file)]

\* the events at the positions in removed are deleted from the file
Truncate(removed) ==
    /\ vstage = "taken"
    /\ removed /= {}
    /\ vfile' = Keep(vfile, removed)
    /\ tamper' = [op |-> "truncate", removed |-> removed]
    /\ vstage' = "tampered"
    /\ UNCHANGED <<vbase, vres, vexit, cli>>
    /\ UNCHANGED ledgerVars
    /\ UNCHANGED appVars

\* the lines are put in another order
Permute(p) ==
    /\ vstage = "taken"
    /\ \E i \in DOMAIN vfile : p[i] /= i
    /\ vfile' = [i \in DOMAIN vfile |-> vfile[p[i]]]
    /\ tamper' = [op |-> "permute"]
    /\ vstage' = "tampered"
    /\ UNCHANGED <<vbase, vres, vexit, cli>>
    /\ UNCHANGED ledgerVars
    /\ UNCHANGED appVars

\* line i is written once more, as line j
Duplicate(i, j) ==
    /\ vstage = "taken"
    /\ i \in DOMAIN vfile
    /\ j \in 1..(Len(vfile) + 1)
    /\ vfile' = SubSeq(vfile, 1, j - 1) \o <<vfile[i]>> \o SubSeq(vfile, j, Len(vfile))
    /\ tamper' = [op |-> "duplicate"]
    /\ vstage' = "tampered"
    /\ UNCHANGED <<vbase, vres, vexit, cli>>
    /\ UNCHANGED ledgerVars
    /\ UNCHANGED appVars

CallTamper ==
    \E run_id \in RunIds, input \in TamperInputs, ts_iso \in TsIsoVals :
        Call("t1", "a1", run_id, input, ts_iso, 1)

NextTamper ==
    \/ CallTamper
    \/ Resolve("t1")
    \/ AppendFile("t1")
    \/ AppendAudit("t1")
    \/ UpdateCache("t1")
    \/ \E run_id \in RunIds : Take(run_id)
    \/ \E pos \in 0..(MaxEvents - 1) : TamperDetails(pos)
    \/ \E pos \in 0..(MaxEvents - 1) : TamperPrev(pos)
    \/ \E removed \in SUBSET (DOMAIN vfile) : Truncate(removed)
    \/ \E p \in Permutations(DOMAIN vfile) : Permute(p)
    \/ \E i \in DOMAIN vfile, j \in 1..(MaxEvents + 1) : Duplicate(i, j)
    \/ Main

SpecTamper == Init /\ [][NextTamper]_vars

\* ------------------------------------- files handed to the verifier directly
ForgedPayload(prev_hash) ==
    [run_id |-> "r1", step |-> "s1", status |-> "ok",
     ts_iso |-> "2026-01-01T00:00:00Z", ts_ns |-> 1,
     input_digest |-> <<>>, output_digest |-> <<>>,
     artifact_paths |-> <<>>, details |-> <<>>,
     prev_event_hash |-> prev_hash]

\* the line log_event writes for a first event whose details hold U+2028
SepPayload == [ForgedPayload(EmptyStr) EXCEPT !.details = <<<<"msg", "str a<LS>b">>>>]
SepLine ==
    JsonLine(OrjsonDumps([event_hash |-> chain_next(EmptyStr, SepPayload)] @@ SepPayload))

ForgedLine(prev_hash, event_hash) ==
    JsonLine(OrjsonDumps([event_hash |-> event_hash] @@ ForgedPayload(prev_hash)))

Link1 == chain_next(EmptyStr, ForgedPayload(EmptyStr))
Link2 == chain_next(Link1, ForgedPayload(Link1))

ForgedLines ==
    {ForgedLine(prev_hash, chain_next(prev_hash, ForgedPayload(prev_hash))) :
        prev_hash \in {EmptyStr, Link1, Link2}}
    \cup {ForgedLine(prev_hash, BogusHash) : prev_hash \in {EmptyStr, Link1}}
    \cup {BlankLine, GarbageLine, SepLine}

ForgedFiles ==
    UNION {[1..n -> ForgedLines] : n \in 0..MaxLen}

InitVerify ==
    /\ cache = [a \in Agents |-> <<>>]
    /\ files = [d \in Dirs |-> <<>>]
    /\ store = {}
    /\ th = [t \in Threads |-> Idle]
    /\ returned = [a \in Agents |-> <<>>]
    /\ live = <<>>
    /\ appendLog = <<>>
    /\ nstarted = 0
    /\ outcome = [t \in Threads |-> NoOutcome]
    /\ cli = NoCli
    /\ calc = NoCalc
    /\ jobs = {}
    /\ upserts = <<>>
    /\ nav = NavOff
    /\ vfile \in ForgedFiles
    /\ vbase = <<>>
    /\ vstage = "taken"
    /\ tamper = [op |-> "none"]
    /\ vres = [outcome |-> "none"]
    /\ vexit = <<>>

NextVerify == Main

SpecVerify == InitVerify /\ [][NextVerify]_vars

\* ------------------------------------------- callers that pass any run_id
AnyRunIds == {"", "r1", "r1/"}

CallAnyRun ==
    \E run_id \in AnyRunIds, input \in SeqInputs, ts_iso \in TsIsoVals :
        Call("t1", "a1", run_id, input, ts_iso, 1)

NextAnyRun ==
    \/ CallAnyRun
    \/ Resolve("t1")
    \/ AppendFile("t1")
    \/ AppendAudit("t1")
    \/ UpdateCache("t1")

SpecAnyRun == Init /\ [][NextAnyRun]_vars

\* ----------------------------------------------------- calls that fail
\* log_event line 43: on a cache miss the query of the store raises
\* (storage.get_last_audit_hash), and nothing catches it
RecoverFails(t) ==
    /\ th[t].pc = "resolve"
    /\ th[t].run_id \notin DOMAIN cache[th[t].agent]
    /\ outcome' = [outcome EXCEPT ![t] = RaisedAt("recover", th[t])]
    /\ th' = [th EXCEPT ![t] = Idle]
    /\ UNCHANGED <<cache, files, store, returned, live, appendLog, nstarted>>
    /\ UNCHANGED verifierVars
    /\ UNCHANGED appVars

\* log_event lines 65-66: open or write raises before a byte is in the file
FileFails(t) ==
    /\ th[t].pc = "file"
    /\ outcome' = [outcome EXCEPT ![t] = RaisedAt("file", th[t])]
    /\ th' = [th EXCEPT ![t] = Idle]
    /\ UNCHANGED <<cache, files, store, returned, live, appendLog, nstarted>>
    /\ UNCHANGED verifierVars
    /\ UNCHANGED appVars

StoreFailsCacheFirst(t) ==
    /\ th[t].pc = "store"
    /\ cache' = [cache EXCEPT ![th[t].agent] =
                    (th[t].run_id :> th[t].event.event_hash) @@ @]
    /\ outcome' = [outcome EXCEPT ![t] =
           [RaisedAt("store", th[t]) EXCEPT !.after.cache = cache'[th[t].agent]]]
    /\ th' = [th EXCEPT ![t] = Idle]
    /\ UNCHANGED <<files, store, returned, live, appendLog, nstarted>>
    /\ UNCHANGED verifierVars
    /\ UNCHANGED appVars

StoreFailsSwallowed(t) ==
    /\ th[t].pc = "store"
    /\ th' = [th EXCEPT ![t].pc = "cache"]
    /\ UNCHANGED <<cache, files, store, returned, live, appendLog, nstarted, outcome>>
    /\ UNCHANGED verifierVars
    /\ UNCHANGED appVars

\* log_event line 69: storage.append_audit raises, the row is not committed;
\* the line written at lines 65-66 stays
StoreFails(t) ==
    /\ th[t].pc = "store"
    /\ outcome' = [outcome EXCEPT ![t] = RaisedAt("store", th[t])]
    /\ th' = [th EXCEPT ![t] = Idle]
    /\ UNCHANGED <<cache, files, store, returned, live, appendLog, nstarted>>
    /\ UNCHANGED verifierVars
    /\ UNCHANGED appVars

\* run ids callers pass; "r1/" is another string for the directory of "r1"
FailRunIds == {"r1", "r2", "r1/"}

\* a call that can succeed, one whose details orjson cannot encode, one
\* whose status AuditEvent does not accept
FailInputs ==
    {[step |-> "s1", status |-> "ok",   details |-> <<>>],
     [step |-> "s6", status |-> "ok",   details |-> <<<<"x", "set()">>>>],
     [step |-> "s7", status |-> "warn", details |-> <<>>]}

CallFail ==
    \E run_id \in FailRunIds, input \in FailInputs, ts_iso \in TsIsoVals :
        Call("t1", "a1", run_id, input, ts_iso, 1)

NextFail ==
    \/ CallFail
    \/ Resolve("t1")
    \/ RecoverFails("t1")
    \/ AppendFile("t1")
    \/ FileFails("t1")
    \/ AppendAudit("t1")
    \/ StoreFails("t1")
    \/ UpdateCache("t1")
    \/ Restart("a1")

SpecFail == Init /\ [][NextFail]_vars

\* ------------------------------------------- the process stops inside a call
\* The process that runs agent a stops while thread t is inside log_event,
\* after the steps the call has taken so far: what is in the files and in
\* the store stays, the agent's cache is gone with the process, and the
\* next process starts with a new AuditTrailAgent (an empty cache).
Crash(t) ==
    /\ th[t].pc \in {"resolve", "file", "store", "cache"}
    /\ LET c == th[t]
       IN  /\ cache' = [cache EXCEPT ![c.agent] = <<>>]
           /\ returned' = [returned EXCEPT ![c.agent] = <<>>]
           /\ outcome' = [outcome EXCEPT ![t] =
                  [kind |-> "crashed", at |-> c.pc, agent |-> c.agent,
                   run_id |-> c.run_id,
                   event |-> IF c.pc = "resolve" THEN <<>> ELSE <<c.event>>,
                   before |-> c.before,
                   after |-> [files |-> files, store |-> store, cache |-> <<>>]]]
    /\ th' = [th EXCEPT ![t] = Idle]
    /\ UNCHANGED <<files, store, live, appendLog, nstarted>>
    /\ UNCHANGED verifierVars
    /\ UNCHANGED appVars

\* what the callers log: one event without and one with U+2028 in its details
CrashInputs ==
    {[step |-> "s1", status |-> "ok", details |-> <<>>],
     [step |-> "s4", status |-> "ok", details |-> <<<<"msg", "str a<LS>b">>>>]}

\* t1 is the thread of the first process, t2 that of the process started
\* after the first one stopped inside a call
ProcessThread == IF outcome["t1"].kind = "crashed" THEN "t2" ELSE "t1"

\* one agent, one call at a time; any call can fail or be cut short by the
\* end of the process
CallCrash ==
    \E run_id \in RunIds, input \in CrashInputs, ts_iso \in TsIsoVals :
        /\ \A u \in Threads : th[u].pc = "idle"
        /\ Call(ProcessThread, "a1", run_id, input, ts_iso, 1)

NextCrash ==
    \/ CallCrash
    \/ \E t \in Threads : Resolve(t)
    \/ \E t \in Threads : RecoverFails(t)
    \/ \E t \in Threads : AppendFile(t)
    \/ \E t \in Threads : FileFails(t)
    \/ \E t \in Threads : AppendAudit(t)
    \/ \E t \in Threads : StoreFails(t)
    \/ \E t \in Threads : UpdateCache(t)
    \/ \E t \in Threads : Crash(t)

SpecCrash == Init /\ [][NextCrash]_vars

\* ------------------------------- two instances take turns on one store
\* two AuditTrailAgent instances, in one process or in two, log for the
\* same runs; a call starts only after the one before it has returned
CallTurns ==
    \E a \in Agents, run_id \in RunIds, input \in CrashInputs, ts_iso \in TsIsoVals :
        /\ \A u \in Threads : th[u].pc = "idle"
        /\ Call("t1", a, run_id, input, ts_iso, 1)

NextTurns ==
    \/ CallTurns
    \/ Resolve("t1")
    \/ AppendFile("t1")
    \/ AppendAudit("t1")
    \/ UpdateCache("t1")

SpecTurns == Init /\ [][NextTurns]_vars

\* ------------------------------------------------- the verifier's command line
\* what --run can name: a run identifier, a directory that holds audit.jsonl,
\* or the append file itself by an absolute or a relative path
CliArgs == {"run_id", "dir", "file_abs", "file_rel"}

\* main lines 50-56: the audit.jsonl the argument resolves to; "named" is the
\* append file the argument stands for, "new" an audit.jsonl under a
\* directory that artifacts_dir_for has just made. mkdir(exist_ok=True) on
\* the path of an existing regular file raises FileExistsError.
resolve_audit(c) ==
    CASE c.arg = "dir"      -> [outcome |-> "path", file |-> "named"]
      [] c.arg = "run_id"   -> [outcome |-> "path", file |-> "named"]
      [] c.arg = "file_abs" -> IF c.present THEN [outcome |-> "raise"]
                               ELSE [outcome |-> "path", file |-> "new"]
      [] c.arg = "file_rel" -> [outcome |-> "path", file |-> "new"]

\* main lines 51-56 with settings.artifacts_dir_for lines 148-157: unless
\* the argument names a directory, base / args.run is made a directory
\* (mkdir parents=True, exist_ok=True) when it is not one yet; c.dir says
\* that it is one. On the path of an existing file mkdir raises and makes
\* nothing.
main_mkdir(c) ==
    CASE c.arg = "dir"      -> FALSE
      [] c.arg = "run_id"   -> ~c.dir
      [] c.arg = "file_abs" -> ~c.present
      [] c.arg = "file_rel" -> ~c.dir

\* main as a whole: resolve, exit 2 if the resolved file does not exist,
\* else verify it
main_argv(c, file) ==
    LET audit == resolve_audit(c)
    IN  IF audit.outcome = "raise"
          THEN [read |-> "none", result |-> Raised, exit |-> <<>>]
        ELSE IF audit.file = "new" \/ ~c.present
          THEN [read |-> "none", result |-> [outcome |-> "none"], exit |-> <<2>>]
        ELSE [read |-> audit.file, result |-> main(file).result,
              exit |-> main(file).exit]

MainArgv ==
    /\ vstage = "taken"
    /\ cli.arg \in CliArgs
    /\ vres' = main_argv(cli, vfile).result
    /\ vexit' = main_argv(cli, vfile).exit
    /\ cli' = [cli EXCEPT !.read = main_argv(cli, vfile).read,
                          !.made = main_mkdir(cli)]
    /\ vstage' = "verified"
    /\ UNCHANGED <<vfile, vbase, tamper>>
    /\ UNCHANGED ledgerVars
    /\ UNCHANGED appVars

\* the append file the argument stands for is there, with any content, or
\* is not there; the path base / args.run is a directory already, or not
InitCli ==
    /\ cache = [a \in Agents |-> <<>>]
    /\ files = [d \in Dirs |-> <<>>]
    /\ store = {}
    /\ th = [t \in Threads |-> Idle]
    /\ returned = [a \in Agents |-> <<>>]
    /\ live = <<>>
    /\ appendLog = <<>>
    /\ nstarted = 0
    /\ outcome = [t \in Threads |-> NoOutcome]
    /\ calc = NoCalc
    /\ jobs = {}
    /\ upserts = <<>>
    /\ nav = NavOff
    /\ \E arg \in CliArgs, present \in BOOLEAN, dir \in BOOLEAN :
           /\ arg = "dir" => dir
           /\ (arg = "run_id" /\ present) => dir
           /\ arg = "file_abs" => ~dir
           /\ cli = [arg |-> arg, present |-> present, dir |-> dir,
                     read |-> "none", made |-> FALSE]
           /\ IF present THEN vfile \in ForgedFiles ELSE vfile = <<>>
    /\ vbase = <<>>
    /\ vstage = "taken"
    /\ tamper = [op |-> "none"]
    /\ vres = [outcome |-> "none"]
    /\ vexit = <<>>

NextCli == MainArgv

SpecCli == InitCli /\ [][NextCli]_vars

\* ------------------------------------------------------ the link hash alone
\* chain_next on a payload given as a dict: its item list in insertion order
chain_next_items(prev_hash, items) ==
    sha256(<<prev_hash, DumpsDetails(items)>>)

\* the same mapping under two insertion orders
Inner1 == <<<<"msg", "str boom">>, <<"x", "int 1">>>>
Inner2 == <<<<"x", "int 1">>, <<"msg", "str boom">>>>

\* the values a key of the payload can have
HashItems ==
    {<<"x", "int 1">>, <<"x", "int 2">>, <<"msg", "str boom">>,
     <<"v", "float nan">>, <<"v", "None">>,
     <<"v", "dict", Inner1>>, <<"v", "dict", Inner2>>}

KeysOf(items) == {items[i][1] : i \in DOMAIN items}

\* the dicts over HashItems: every choice of items with distinct keys, in
\* every insertion order
HashDicts ==
    UNION {{d \in [1..n -> HashItems] :
               \A i, j \in 1..n : i /= j => d[i][1] /= d[j][1]} : n \in 0..3}

InitHash ==
    /\ cache = [a \in Agents |-> <<>>]
    /\ files = [d \in Dirs |-> <<>>]
    /\ store = {}
    /\ th = [t \in Threads |-> Idle]
    /\ returned = [a \in Agents |-> <<>>]
    /\ live = <<>>
    /\ appendLog = <<>>
    /\ nstarted = 0
    /\ outcome = [t \in Threads |-> NoOutcome]
    /\ cli = NoCli
    /\ \E prev \in {EmptyStr, BogusHash}, a \in HashDicts, b \in HashDicts :
           calc = [op |-> "chain_next", prev |-> prev, a |-> a, b |-> b]
    /\ jobs = {}
    /\ upserts = <<>>
    /\ nav = NavOff
    /\ vfile = <<>>
    /\ vbase = <<>>
    /\ vstage = "ledger"
    /\ tamper = [op |-> "none"]
    /\ vres = [outcome |-> "none"]
    /\ vexit = <<>>

\* chain_next applied to both payloads, and once more to the first
ChainNext ==
    /\ calc.op = "chain_next"
    /\ calc' = [op |-> "hashed", prev |-> calc.prev, a |-> calc.a, b |-> calc.b,
                bytes_a |-> DumpsDetails(calc.a),
                bytes_b |-> DumpsDetails(calc.b),
                hash_a |-> chain_next_items(calc.prev, calc.a),
                hash_b |-> chain_next_items(calc.prev, calc.b),
                again_a |-> chain_next_items(calc.prev, calc.a),
                accepted_a |-> Encodable(calc.a)]
    /\ UNCHANGED <<jobs, upserts, nav>>
    /\ UNCHANGED ledgerVars
    /\ UNCHANGED verifierVars

NextHash == ChainNext

SpecHash == InitHash /\ [][NextHash]_vars

\* ------------------------------------------------------------ the jobs table
Urls == {"u1", "u2"}
ContentHashes == {"h1", "h2"}

\* a row of the jobs table; id is the autoincrement key
JobRow(id, run_id, url, content_hash) ==
    [id |-> id, run_id |-> run_id, url |-> url, content_hash |-> content_hash]

\* select(Job).where(Job.url == url, Job.content_hash == content_hash)
JobsWith(rows, url, content_hash) ==
    {r \in rows : r.url = url /\ r.content_hash = content_hash}

UpsertJobInsertOnly(run_id, url, content_hash) ==
    /\ Len(upserts) < MaxEvents
    /\ jobs' = jobs \cup {JobRow(NextId(jobs), run_id, url, content_hash)}
    /\ upserts' = Append(upserts, [run_id |-> run_id, url |-> url,
                                   content_hash |-> content_hash,
                                   id |-> NextId(jobs)])
    /\ UNCHANGED <<calc, nav>>
    /\ UNCHANGED ledgerVars
    /\ UNCHANGED verifierVars

\* storage.upsert_job: the id of a row with this url and content_hash if
\* there is one (.first(), no ORDER BY), else a new row is inserted
UpsertJob(run_id, url, content_hash) ==
    /\ Len(upserts) < MaxEvents
    /\ LET found == JobsWith(jobs, url, content_hash)
       IN  IF found /= {}
             THEN \E existing \in found :
                      /\ upserts' = Append(upserts, [run_id |-> run_id, url |-> url,
                                                     content_hash |-> content_hash,
                                                     id |-> existing.id])
                      /\ jobs' = jobs
             ELSE /\ jobs' = jobs \cup {JobRow(NextId(jobs), run_id, url, content_hash)}
                  /\ upserts' = Append(upserts, [run_id |-> run_id, url |-> url,
                                                 content_hash |-> content_hash,
                                                 id |-> NextId(jobs)])
    /\ UNCHANGED <<calc, nav>>
    /\ UNCHANGED ledgerVars
    /\ UNCHANGED verifierVars

NextJobs ==
    \E run_id \in RunIds, url \in Urls, content_hash \in ContentHashes :
        UpsertJob(run_id, url, content_hash)

SpecJobs == Init /\ [][NextJobs]_vars

\* ------------------------------------------------- one run of the navigator
\* NavigatorAgent.run(url, fixture_path) on one agent. nav holds the position
\* of the run (pc), its inputs (fixture: a fixture_path was given;
\* allow_manual: settings.auth["allow_manual_login"]; screenshots: the
\* agent's _screenshot_enabled; llm_config: settings.llm["enabled"];
\* llm_override: the agent's _llm_enabled_override), the row of the run in
\* the runs table
\* (row) and log: the step and status of the lines self.log_event has
\* appended to the run's audit.jsonl, in order.
NavRunId == "r1"

NavUrl == "u1"

NavContentHash == "h1"

\* storage.create_run: a new row, status running
create_run == [status |-> "running", finished |-> FALSE, error_message |-> <<>>]

\* storage.finish_run: status, finished_at and error_message are overwritten
finish_run(row, status, error_message) ==
    [row EXCEPT !.status = status, !.finished = TRUE, !.error_message = error_message]

\* self.log_event(run_id, step, status, details) returned: one more line
NavLog(n, step, status) ==
    [n EXCEPT !.log = Append(@, [step |-> step, status |-> status])]

\* line 229: the configuration and the agent's override must both be on
llm_enabled(n) == n.llm_config /\ n.llm_override

NavAt(n, pc) == [n EXCEPT !.pc = pc]

NavSame == UNCHANGED <<calc, jobs, upserts>> /\ UNCHANGED ledgerVars /\ UNCHANGED verifierVars

\* the positions inside the try block of run
NavTryPcs == {"session", "canon", "gate", "gated", "logged", "detect", "probe",
              "expand", "scroll", "expand2", "shot", "links", "pivot", "extract",
              "llm", "llm_resp", "fields", "extracted", "normalize", "json",
              "sqlite", "finish"}

\* lines 35-44: canonicalize, create_run, artifacts_dir_for, run_started
\* (logged before the try block is entered)
NavRun ==
    /\ nav.pc = "off"
    /\ \E fixture \in BOOLEAN, allow_manual \in BOOLEAN, screenshots \in BOOLEAN,
          llm_config \in BOOLEAN, llm_override \in BOOLEAN :
           nav' = [pc |-> "session", fixture |-> fixture, allow_manual |-> allow_manual,
                   screenshots |-> screenshots, llm_config |-> llm_config,
                   llm_override |-> llm_override,
                   row |-> create_run,
                   log |-> << [step |-> "run_started", status |-> "ok"] >>,
                   exc |-> <<>>]
    /\ NavSame

\* lines 35-44: log_event("run_started") raises; the call is outside the try
\* block, so the exception leaves run with the row still running
NavRunRaises ==
    /\ nav.pc = "off"
    /\ \E fixture \in BOOLEAN, allow_manual \in BOOLEAN, screenshots \in BOOLEAN,
          llm_config \in BOOLEAN, llm_override \in BOOLEAN :
           nav' = [pc |-> "raised", fixture |-> fixture, allow_manual |-> allow_manual,
                   screenshots |-> screenshots, llm_config |-> llm_config,
                   llm_override |-> llm_override,
                   row |-> create_run, log |-> <<>>, exc |-> <<"log_event">>]
    /\ NavSame

\* line 52
NavSessionLoaded ==
    /\ nav.pc = "session"
    /\ nav' = NavAt(NavLog(nav, "auth.session_loaded", "ok"), "canon")
    /\ NavSame

\* lines 54-55: only when the canonical url differs from the url given
NavUrlCanonicalized ==
    /\ nav.pc = "canon"
    /\ nav' = NavAt(NavLog(nav, "url.canonicalized", "ok"), "fetch")
    /\ NavSame

\* lines 58-80: the page is loaded from the fixture or from the network
NavFetchHtml ==
    /\ nav.pc \in {"canon", "fetch"}
    /\ nav' = NavAt(NavLog(nav, "navigate.fetch_html", "ok"), "gate")
    /\ NavSame

\* lines 89-95: the login gate is detected
NavAuthRequired ==
    /\ nav.pc = "gate"
    /\ nav' = NavAt(NavLog(nav, "auth.required", "ok"), "gated")
    /\ NavSame

\* lines 96-103: manual login is not allowed: the run is marked
\* auth_required and RuntimeError is raised inside the try block
NavManualLoginDisabled ==
    /\ nav.pc = "gated"
    /\ ~nav.allow_manual
    /\ nav' = [nav EXCEPT !.pc = "except",
                          !.row = finish_run(@, "auth_required", <<"Manual login disabled">>),
                          !.exc = <<"RuntimeError">>]
    /\ NavSame

NavLoggedInMarkerAnyMode ==
    /\ nav.pc = "gated"
    /\ nav.allow_manual
    /\ nav' = NavAt(NavLog(nav, "auth.logged_in_marker", "ok"), "logged")
    /\ NavSame

\* lines 105-123: `if not fixture_path:` the wait for the manual login, which
\* ends with the logged-in marker seen
NavLoggedInMarker ==
    /\ nav.pc = "gated"
    /\ nav.allow_manual
    /\ ~nav.fixture
    /\ nav' = NavAt(NavLog(nav, "auth.logged_in_marker", "ok"), "logged")
    /\ NavSame

\* lines 124-130
NavSessionSaved ==
    /\ nav.pc = "logged"
    /\ nav' = NavAt(NavLog(nav, "auth.session_saved", "ok"), "detect")
    /\ NavSame

\* the gate handling is over: no gate, or a gate with manual login allowed
\* and either a fixture (no wait) or a wait that timed out
NavPastGate(n) ==
    \/ n.pc = "gate"
    \/ n.pc = "gated" /\ n.allow_manual
    \/ n.pc = "detect"

\* lines 133-145
NavUrlPattern ==
    /\ NavPastGate(nav)
    /\ nav' = NavAt(NavLog(nav, "detect_platform.url_pattern", "ok"), "probe")
    /\ NavSame

\* lines 146-152
NavDomProbe ==
    /\ nav.pc = "probe"
    /\ nav' = NavAt(NavLog(nav, "detect_platform.dom_probe", "ok"), "expand")
    /\ NavSame

\* lines 156-163: the first expand; expanded or not is the page's answer
NavExpandSeeMore ==
    /\ nav.pc = "expand"
    /\ \E expanded \in BOOLEAN :
           nav' = NavAt(NavLog(nav, "expand.see_more", "ok"),
                        IF expanded THEN "shot" ELSE "scroll")
    /\ NavSame

\* lines 164-172
NavScrollLazy ==
    /\ nav.pc = "scroll"
    /\ nav' = NavAt(NavLog(nav, "dom.scroll_lazy", "ok"), "expand2")
    /\ NavSame

\* lines 173-185
NavExpandAgain ==
    /\ nav.pc = "expand2"
    /\ nav' = NavAt(NavLog(nav, "expand.see_more", "ok"), "shot")
    /\ NavSame

\* lines 188-208
NavScreenshot ==
    /\ nav.pc = "shot"
    /\ nav' = NavAt(NavLog(nav, IF nav.screenshots THEN "artifact.screenshot"
                                                   ELSE "artifact.screenshot_skipped",
                           "ok"), "links")
    /\ NavSame

\* lines 211-218: external apply links were found
NavApplyLinks ==
    /\ nav.pc = "links"
    /\ nav' = NavAt(NavLog(nav, "detect.apply_links", "ok"), "pivot")
    /\ NavSame

\* lines 219-225: one of the links is an ATS
NavPivotAts ==
    /\ nav.pc = "pivot"
    /\ nav' = NavAt(NavLog(nav, "pivot.ats", "ok"), "extract")
    /\ NavSame

NavLlmRequestAnyway ==
    /\ nav.pc \in {"links", "pivot", "extract"}
    /\ nav' = NavAt(NavLog(nav, "llm.assist.request", "ok"), "llm")
    /\ NavSame

\* extractors.extract_fields, lines 163-183: `if llm_enabled and missing_keys`
NavLlmRequest ==
    /\ nav.pc \in {"links", "pivot", "extract"}
    /\ llm_enabled(nav)
    /\ nav' = NavAt(NavLog(nav, "llm.assist.request", "ok"), "llm")
    /\ NavSame

\* extractors.extract_fields, lines 184-209: the inference returned
NavLlmResponse ==
    /\ nav.pc = "llm"
    /\ nav' = NavAt(NavLog(nav, "llm.assist.response", "ok"), "llm_resp")
    /\ NavSame

\* extractors.extract_fields, lines 210-217: `if discarded:`
NavLlmDiscarded ==
    /\ nav.pc = "llm_resp"
    /\ nav' = NavAt(NavLog(nav, "llm.assist.discarded", "ok"), "fields")
    /\ NavSame

\* extractors.extract_fields, lines 218-225: `except Exception` around the
\* inference and its two log_event calls
NavLlmError ==
    /\ nav.pc \in {"llm", "llm_resp"}
    /\ nav' = NavAt(NavLog(nav, "llm.assist.error", "error"), "fields")
    /\ NavSame

\* lines 232-238: extract_fields returned (with no LLM step, or after it)
NavExtractFields ==
    /\ \/ nav.pc \in {"links", "pivot", "extract"}
       \/ nav.pc \in {"llm_resp", "fields"}
    /\ nav' = NavAt(NavLog(nav, "extract.fields", "ok"), "extracted")
    /\ NavSame

\* lines 239-240: `if not llm_enabled:`
NavLlmSkipped ==
    /\ nav.pc = "extracted"
    /\ ~llm_enabled(nav)
    /\ nav' = NavAt(NavLog(nav, "llm.assist.skipped", "ok"), "normalize")
    /\ NavSame

\* lines 244-250
NavNormalizeFields ==
    /\ \/ nav.pc = "extracted" /\ llm_enabled(nav)
       \/ nav.pc = "normalize"
    /\ nav' = NavAt(NavLog(nav, "normalize.fields", "ok"), "json")
    /\ NavSame

NavPersistJsonUnlogged ==
    /\ nav.pc = "json"
    /\ nav' = NavAt(nav, "sqlite")
    /\ NavSame

\* lines 253-276
NavPersistJson ==
    /\ nav.pc = "json"
    /\ nav' = NavAt(NavLog(nav, "persist.json", "ok"), "sqlite")
    /\ NavSame

\* lines 278-284: storage.upsert_job, then persist.sqlite
NavPersistSqlite ==
    /\ nav.pc = "sqlite"
    /\ nav' = NavAt(NavLog(nav, "persist.sqlite", "ok"), "finish")
    /\ LET found == JobsWith(jobs, NavUrl, NavContentHash)
       IN  IF found /= {}
             THEN \E existing \in found :
                      /\ upserts' = Append(upserts, [run_id |-> NavRunId, url |-> NavUrl,
                                                     content_hash |-> NavContentHash,
                                                     id |-> existing.id])
                      /\ jobs' = jobs
             ELSE /\ jobs' = jobs \cup {JobRow(NextId(jobs), NavRunId, NavUrl, NavContentHash)}
                  /\ upserts' = Append(upserts, [run_id |-> NavRunId, url |-> NavUrl,
                                                 content_hash |-> NavContentHash,
                                                 id |-> NextId(jobs)])
    /\ UNCHANGED calc
    /\ UNCHANGED ledgerVars
    /\ UNCHANGED verifierVars

\* lines 286-293: finish_run(status="ok"), run_finished, return job
NavRunFinished ==
    /\ nav.pc = "finish"
    /\ nav' = [NavLog(nav, "run_finished", "ok") EXCEPT
                   !.pc = "returned", !.row = finish_run(@, "ok", <<>>)]
    /\ NavSame

\* lines 286-292: finish_run(status="ok") is done, log_event("run_finished")
\* raises
NavRunFinishedRaises ==
    /\ nav.pc = "finish"
    /\ nav' = [nav EXCEPT !.pc = "except", !.row = finish_run(@, "ok", <<>>),
                          !.exc = <<"log_event">>]
    /\ NavSame

\* lines 47-285: any statement of the try block raises (the browser, the
\* filesystem, the store, a log_event call, the undefined name
\* strip_tracking of line 84)
NavRaises ==
    /\ nav.pc \in NavTryPcs \ {"finish"}
    /\ nav' = [nav EXCEPT !.pc = "except", !.exc = <<"Exception">>]
    /\ NavSame

\* lines 295-305: run_failed, finish_run(status="error"), raise
NavRunFailed ==
    /\ nav.pc = "except"
    /\ nav' = [NavLog(nav, "run_failed", "error") EXCEPT
                   !.pc = "raised", !.row = finish_run(@, "error", nav.exc)]
    /\ NavSame

\* lines 296-303: log_event("run_failed") raises inside the handler:
\* finish_run is not reached
NavRunFailedRaises ==
    /\ nav.pc = "except"
    /\ nav' = [nav EXCEPT !.pc = "raised", !.exc = <<"log_event">>]
    /\ NavSame

NextNav ==
    \/ NavRun
    \/ NavRunRaises
    \/ NavSessionLoaded
    \/ NavUrlCanonicalized
    \/ NavFetchHtml
    \/ NavAuthRequired
    \/ NavManualLoginDisabled
    \/ NavLoggedInMarker
    \/ NavSessionSaved
    \/ NavUrlPattern
    \/ NavDomProbe
    \/ NavExpandSeeMore
    \/ NavScrollLazy
    \/ NavExpandAgain
    \/ NavScreenshot
    \/ NavApplyLinks
    \/ NavPivotAts
    \/ NavLlmRequest
    \/ NavLlmResponse
    \/ NavLlmDiscarded
    \/ NavLlmError
    \/ NavExtractFields
    \/ NavLlmSkipped
    \/ NavNormalizeFields
    \/ NavPersistJson
    \/ NavPersistSqlite
    \/ NavRunFinished
    \/ NavRunFinishedRaises
    \/ NavRaises
    \/ NavRunFailed
    \/ NavRunFailedRaises

SpecNav == Init /\ [][NextNav]_vars

\* a run in which nothing outside the program fails: every statement that
\* can raise only because of the browser, the filesystem or the store
\* returns. run is one synchronous call, so it keeps taking steps until it
\* returns or raises.
NextNavSteps ==
    \/ NavRun
    \/ NavSessionLoaded
    \/ NavUrlCanonicalized
    \/ NavFetchHtml
    \/ NavAuthRequired
    \/ NavManualLoginDisabled
    \/ NavLoggedInMarker
    \/ NavSessionSaved
    \/ NavUrlPattern
    \/ NavDomProbe
    \/ NavExpandSeeMore
    \/ NavScrollLazy
    \/ NavExpandAgain
    \/ NavScreenshot
    \/ NavApplyLinks
    \/ NavPivotAts
    \/ NavLlmRequest
    \/ NavLlmResponse
    \/ NavLlmDiscarded
    \/ NavLlmError
    \/ NavExtractFields
    \/ NavLlmSkipped
    \/ NavNormalizeFields
    \/ NavPersistJson
    \/ NavPersistSqlite
    \/ NavRunFinished
    \/ NavRunFailed

SpecNavLive == Init /\ [][NextNavSteps]_vars /\ WF_vars(NextNavSteps)

\* ------------------------------------------------------------ claims C1-C4
AllIdle == \A t \in Threads : th[t].pc = "idle"

EventsOf(events, run_id) == SelectSeq(events, LAMBDA e : e.run_id = run_id)

FileOf(run_id) == files[artifacts_dir_for(run_id)]

\* the store held a row of the run before the row of this event was inserted
HeldEarlier(event) ==
    \E r \in store, q \in store :
        /\ r.event_hash = event.event_hash
        /\ q.run_id = event.run_id
        /\ q.id < r.id

\* C1: the events one agent has returned for a run are linked: each event's
\* prev_event_hash is the event_hash of the event returned before it, and the
\* first one's is "" when the store held no earlier event of the run.
C1_ChainLinkage ==
    \A a \in Agents, run_id \in RunIds :
        LET evs == EventsOf(returned[a], run_id)
        IN  /\ \A i \in 2..Len(evs) :
                   evs[i].prev_event_hash = evs[i - 1].event_hash
            /\ (evs /= <<>> /\ ~HeldEarlier(evs[1]))
                   => evs[1].prev_event_hash = EmptyStr

C1_Witness ==
    \E a \in Agents, run_id \in RunIds :
        LET evs == EventsOf(returned[a], run_id)
        IN  /\ Len(evs) >= 3
            /\ evs[1].prev_event_hash = EmptyStr
            /\ evs[3].prev_event_hash /= evs[1].event_hash

\* C2: once the calls made have all returned, verify_chain on each run's
\* audit.jsonl returns valid=true, break_index=None and as many events as
\* were logged for the run.
C2_WriterVerifierAgreement ==
    AllIdle =>
        \A run_id \in RunIds :
            LET v == verify_chain(FileOf(run_id))
            IN  /\ v.outcome = "return"
                /\ v.valid
                /\ v.break_index = <<>>
                /\ v.events = Cardinality(RowsOf(store, run_id))

\* C3: a call that finds no cache entry for a run with M >= 1 persisted
\* events takes as prev_event_hash the event_hash of event M, which is what
\* the cache of the agent that logged event M held.
C3_RestartRecovery ==
    \A t \in Threads :
        (/\ th[t].pc = "file"
         /\ th[t].recovered
         /\ RowsOf(store, th[t].run_id) /= {})
        => LET f == FileOf(th[t].run_id)
           IN  /\ th[t].event.prev_event_hash = f[Len(f)].text.event_hash
               /\ th[t].event.prev_event_hash = live[th[t].run_id]

C3_Witness ==
    \E t \in Threads :
        /\ th[t].pc = "file"
        /\ th[t].recovered
        /\ Cardinality(RowsOf(store, th[t].run_id)) >= 2

LastAppended(run_id) ==
    LET mine == EventsOf(appendLog, run_id)
    IN  IF mine = <<>> THEN <<>> ELSE <<mine[Len(mine)].event_hash>>

\* C4: get_last_audit_hash(run_id) is the event_hash of the row of the run
\* inserted last, whatever the timestamps stored, and None for a run
\* without rows.
C4_LastByAppendOrder ==
    \A run_id \in RunIds :
        get_last_audit_hash(store, run_id) = LastAppended(run_id)

C4_Witness ==
    \E i, j \in DOMAIN appendLog :
        /\ i < j
        /\ appendLog[i].run_id = appendLog[j].run_id
        /\ appendLog[j].ts_ns < appendLog[i].ts_ns
        /\ \A k \in DOMAIN appendLog :
               appendLog[k].run_id = appendLog[j].run_id => k <= j
        /\ \E run_id \in RunIds : get_last_audit_hash(store, run_id) = <<>>

\* ----------------------------------------------------------- claims C5-C10
Linked(file) ==
    \A i \in DOMAIN file :
        file[i].text.prev_event_hash =
            IF i = 1 THEN EmptyStr ELSE file[i - 1].text.event_hash

\* C5: with calls for distinct runs interleaved step by step, each run's
\* file is a linked chain that verifies valid, and no event of one run has
\* as prev_event_hash an event_hash of the other run.
C5_IndependentRuns ==
    AllIdle =>
        \A run_id \in RunIds :
            LET f == FileOf(run_id)
                v == verify_chain(f)
            IN  /\ Linked(f)
                /\ v.outcome = "return" /\ v.valid
                /\ \A other \in RunIds \ {run_id} :
                       \A i \in DOMAIN f :
                           f[i].text.prev_event_hash \notin HashesIn(FileOf(other))

\* the part of C5 about the chains alone
C5_ChainsApart ==
    AllIdle =>
        \A run_id \in RunIds :
            LET f == FileOf(run_id)
            IN  /\ Linked(f)
                /\ \A other \in RunIds \ {run_id} :
                       \A i \in DOMAIN f :
                           f[i].text.prev_event_hash \notin HashesIn(FileOf(other))

ValidBase ==
    /\ vbase /= <<>>
    /\ verify_chain(vbase).outcome = "return"
    /\ verify_chain(vbase).valid

\* C6: changing one byte of the details of the event at position i of a
\* valid file, or only its prev_event_hash, makes verify_chain return
\* valid=false with break_index i.
C6_TamperDetected ==
    (vstage = "verified" /\ tamper.op \in {"details", "prev"} /\ ValidBase)
    => /\ vres.outcome = "return"
       /\ ~vres.valid
       /\ vres.break_index = <<tamper.pos>>

\* the part of C6 about prev_event_hash alone
C6_PrevTamperDetected ==
    (vstage = "verified" /\ tamper.op = "prev" /\ ValidBase)
    => /\ vres.outcome = "return"
       /\ ~vres.valid
       /\ vres.break_index = <<tamper.pos>>

\* C7: a ledger-written file from which events were removed does not
\* verify valid.
C7_TruncationDetected ==
    (vstage = "verified" /\ tamper.op = "truncate")
    => ~(vres.outcome = "return" /\ vres.valid)

\* C8: a ledger-written file of at least two events whose lines were put in
\* another order, or one of whose lines was duplicated, yields valid=false.
C8_ReorderDetected ==
    (vstage = "verified" /\ tamper.op \in {"permute", "duplicate"} /\ Len(vbase) >= 2)
    => (vres.outcome = "return" /\ ~vres.valid)

\* the events of a file, in file order, each with the position of its line
EventsIn(file) ==
    SelectSeq([i \in DOMAIN file |-> [at |-> i - 1, line |-> file[i]]],
              LAMBDA e : e.line.kind /= "blank")

Inconsistent(evs, k) ==
    \/ evs[k].line.kind /= "json"
    \/ LET ev == JsonLoads(evs[k].line.text)
           expected == IF k = 1 THEN <<EmptyStr>>
                       ELSE IF evs[k - 1].line.kind = "json"
                         THEN <<evs[k - 1].line.text.event_hash>>
                       ELSE <<>>
       IN  \/ <<ev.prev_event_hash>> /= expected
           \/ ev.event_hash /= sha256(<<ev.prev_event_hash,
                                        OrjsonDumps(WithoutEventHash(ev))>>)

FirstInconsistent(evs) ==
    {k \in DOMAIN evs : Inconsistent(evs, k) /\ \A j \in 1..(k - 1) : ~Inconsistent(evs, j)}

\* C9: verify_chain returns valid=true iff no event of the file has a
\* prev_event_hash other than the event_hash of the event before it ("" for
\* the first) or an event_hash other than the recomputed one; when it returns
\* valid=false, break_index is the position in the file of the first such
\* event.
C9_ValidIffConsistent ==
    vstage = "verified" =>
        LET evs == EventsIn(vfile)
            first == FirstInconsistent(evs)
        IN  /\ (vres.outcome = "return" /\ vres.valid) <=> (first = {})
            /\ (vres.outcome = "return" /\ ~vres.valid) =>
                   \E k \in first : vres.break_index = <<evs[k].at>>

\* C9 for the files of which verify_chain reads every line as written
C9_OnReadableFiles ==
    (vstage = "verified"
     /\ \A i \in DOMAIN vfile : vfile[i].kind = "json" => ~HasLineSep(vfile[i].text))
    => LET evs == EventsIn(vfile)
           first == FirstInconsistent(evs)
       IN  /\ (vres.outcome = "return" /\ vres.valid) <=> (first = {})
           /\ (vres.outcome = "return" /\ ~vres.valid) =>
                  \E k \in first : vres.break_index = <<evs[k].at>>

\* C10: verifying a zero-length file returns events=0, valid=true,
\* break_index=None, and the CLI exits 0.
C10_EmptyFile ==
    (vstage = "verified" /\ vfile = <<>>)
    => /\ vres.outcome = "return"
       /\ vres.events = 0
       /\ vres.valid
       /\ vres.break_index = <<>>
       /\ vexit = <<0>>

C10_Witness == vstage = "verified" /\ vfile = <<>> /\ vexit /= <<>>

\* ------------------------------------------------------- claims C11 .. C20
\* C11: for every readable file, one with a line that is no JSON object
\* included, verify_chain returns a result instead of raising, and the
\* result of a file with such a line has valid=false.
C11_VerifyNeverRaises ==
    vstage = "verified"
    => /\ vres.outcome = "return"
       /\ (\E i \in DOMAIN vfile : vfile[i].kind = "garbage") => ~vres.valid

\* C12: given a run identifier or a directory, main returns 0 exactly when
\* the resolved file exists and its chain is consistent, 1 exactly when it
\* exists and its chain is broken, 2 exactly when it does not exist.
C12_ExitCodes ==
    (vstage = "verified" /\ cli.arg \in {"run_id", "dir"})
    => LET consistent == FirstInconsistent(EventsIn(vfile)) = {}
       IN  /\ vexit = <<0>> <=> (cli.present /\ consistent)
           /\ vexit = <<1>> <=> (cli.present /\ ~consistent)
           /\ vexit = <<2>> <=> ~cli.present

\* what main does when verify_chain returns: the exit code follows the result
C12_ExitFollowsResult ==
    (vstage = "verified" /\ cli.arg \in {"run_id", "dir"})
    => /\ vexit = <<0>> <=> (cli.present /\ vres.outcome = "return" /\ vres.valid)
       /\ vexit = <<1>> <=> (cli.present /\ vres.outcome = "return" /\ ~vres.valid)
       /\ vexit = <<2>> <=> ~cli.present

\* C13: given a run identifier or the path of an existing append file, main
\* reads that file and its outcome is that of verify_chain on it.
C13_RunIdOrFilePath ==
    (vstage = "verified" /\ cli.arg \in {"run_id", "file_abs", "file_rel"}
     /\ cli.present)
    => /\ cli.read = "named"
       /\ vres = verify_chain(vfile)

\* the forms of --run that main does resolve to the file they stand for
C13_RunIdOrDirectory ==
    (vstage = "verified" /\ cli.arg \in {"run_id", "dir"} /\ cli.present)
    => /\ cli.read = "named"
       /\ vres = verify_chain(vfile)

\* C14: whenever log_event raises, the files, the store and the agent's
\* cache are as the call found them.
C14_AllOrNothing ==
    \A t \in Threads :
        outcome[t].kind = "raised" => outcome[t].after = outcome[t].before

\* the failures of log_event that come before its first write
C14_EarlyFailures ==
    \A t \in Threads :
        (outcome[t].kind = "raised" /\ outcome[t].at /= "store")
        => outcome[t].after = outcome[t].before

\* the step in which thread t returns from log_event
Returns(t) == outcome[t].kind /= "returned" /\ outcome'[t].kind = "returned"

LastOf(file) == IF file = <<>> THEN <<>> ELSE <<file[Len(file)]>>

\* C15: at the moment log_event returns an event, the event is the last
\* line of its run's file, a row of the store, and the cache entry of its
\* run_id on the agent is its event_hash.
C15_SynchronousDurability ==
    [][\A t \in Threads :
          Returns(t) =>
              LET e == outcome'[t].event
                  a == outcome'[t].agent
              IN  /\ LastOf(files'[artifacts_dir_for(e.run_id)])
                         = <<JsonLine(OrjsonDumps(e))>>
                  /\ \E r \in store' : r = AuditRow(r.id, e)
                  /\ e.run_id \in DOMAIN cache'[a]
                  /\ cache'[a][e.run_id] = e.event_hash]_vars

\* a call has returned its event after an earlier call failed at the store
C15_Witness ==
    /\ outcome["t1"].kind = "returned"
    /\ Len(files[artifacts_dir_for(outcome["t1"].run_id)]) >= 2
    /\ Cardinality(store) = 1

\* C16: when the payload cannot be encoded, log_event raises and the files,
\* the store and the cache are exactly as before the call.
C16_EncodingFailureWritesNothing ==
    \A t \in Threads :
        (outcome[t].kind = "raised" /\ outcome[t].at = "encode")
        => /\ outcome[t].after = outcome[t].before
           /\ th[t].pc = "idle" => Sinks(outcome[t].agent).files = outcome[t].before.files
           /\ th[t].pc = "idle" => Sinks(outcome[t].agent).store = outcome[t].before.store

\* a call with details that cannot be encoded has raised on a ledger that
\* already holds an event
C16_Witness ==
    /\ outcome["t1"].kind = "raised"
    /\ outcome["t1"].at = "encode"
    /\ outcome["t1"].before.store /= {}
    /\ th["t1"].pc = "idle"

\* C17: on a cache miss with a store that cannot be queried, log_event
\* raises and persists nothing; an event has prev_event_hash "" only if the
\* cache had no entry for its run_id, the store was queried, and the store
\* held no event of that run_id.
C17_RecoveryFailureIsFatal ==
    \A t \in Threads :
        /\ (outcome[t].kind = "raised" /\ outcome[t].at = "recover")
           => outcome[t].after = outcome[t].before
        /\ (th[t].pc \in {"file", "store", "cache"}
            /\ th[t].event.prev_event_hash = EmptyStr)
           => /\ th[t].recovered
              /\ RowsOf(th[t].before.store, th[t].run_id) = {}

\* after a restart, with events of the run in the store, the query fails
C17_Witness ==
    /\ outcome["t1"].kind = "raised"
    /\ outcome["t1"].at = "recover"
    /\ RowsOf(outcome["t1"].before.store, outcome["t1"].run_id) /= {}

IsPrefix(old, new) == Len(old) <= Len(new) /\ SubSeq(new, 1, Len(old)) = old

\* C18: no step changes or removes a line or a row written before, and a
\* call that returns has, as its whole effect on files and store, put one
\* line at the end of its run's file and one row into the store.
C18_AppendOnly ==
    [][/\ \A d \in Dirs : IsPrefix(files[d], files'[d])
       /\ store \subseteq store'
       /\ \A t \in Threads :
              Returns(t) =>
                  LET e == outcome'[t].event
                      was == th[t].before
                  IN  /\ files' = [was.files EXCEPT ![artifacts_dir_for(e.run_id)] =
                                     Append(@, JsonLine(OrjsonDumps(e)))]
                      /\ store' = was.store \cup {AuditRow(NextId(was.store), e)}]_vars

\* a third event has been returned, onto a file and a store that held two
C18_Witness ==
    /\ outcome["t1"].kind = "returned"
    /\ Cardinality(store) = 3
    /\ \E d \in Dirs : Len(files[d]) >= 2

\* the run whose call thread t is in
InCall(t) == th[t].pc /= "idle"

\* the file, the rows and the cache entries of run B are as they were
RunUntouched(B) ==
    /\ files'[artifacts_dir_for(B)] = files[artifacts_dir_for(B)]
    /\ RowsOf(store', B) = RowsOf(store, B)
    /\ \A a \in Agents :
           /\ (B \in DOMAIN cache'[a]) <=> (B \in DOMAIN cache[a])
           /\ B \in DOMAIN cache[a] => cache'[a][B] = cache[a][B]

\* C19: no step of a log_event call for run A changes the file, the rows or
\* the cache entry of a run B with another run_id string.
C19_NoCrossRunEffect ==
    [][\A t \in Threads :
          InCall(t) =>
              \A B \in FailRunIds \ {th[t].run_id} : RunUntouched(B)]_vars

\* C19 for the runs whose run_id names another directory
C19_NoCrossDirectoryEffect ==
    [][\A t \in Threads :
          InCall(t) =>
              \A B \in FailRunIds \ {th[t].run_id} :
                  artifacts_dir_for(B) /= artifacts_dir_for(th[t].run_id)
                  => RunUntouched(B)]_vars

\* two persisted events of the run with the same prev_event_hash: each is a
\* line of the file and a row of the store
Forked(run_id) ==
    LET file == FileOf(run_id)
    IN  \E i, j \in DOMAIN file :
            /\ i < j
            /\ file[i].kind = "json" /\ file[j].kind = "json"
            /\ file[i].text.prev_event_hash = file[j].text.prev_event_hash
            /\ \E r, q \in RowsOf(store, run_id) :
                   /\ r.id /= q.id
                   /\ r.event_hash = file[i].text.event_hash
                   /\ q.event_hash = file[j].text.event_hash

\* C20: callers that overlap on one run_id are not serialized: both can
\* resolve the same prev_hash, and the two persisted events with the same
\* prev_event_hash make a file that does not verify valid.
C20_ForkFailsVerification ==
    (AllIdle /\ Forked("r1"))
    => LET res == verify_chain(FileOf("r1"))
       IN  ~(res.outcome = "return" /\ res.valid)

\* both threads have returned from overlapping calls for the run, each with
\* an event built on the same prev_hash, and both events are persisted
C20_Witness ==
    /\ AllIdle
    /\ outcome["t1"].kind = "returned"
    /\ outcome["t2"].kind = "returned"
    /\ outcome["t1"].event.prev_event_hash = outcome["t2"].event.prev_event_hash
    /\ outcome["t1"].event.event_hash /= outcome["t2"].event.event_hash
    /\ Forked("r1")

\* ------------------------------------------------------- claims C21 .. C30
RECURSIVE SameMapping(_, _)
\* two dicts hold the same keys with the same values, nested dicts likewise
SameMapping(a, b) ==
    /\ KeysOf(a) = KeysOf(b)
    /\ \A i \in DOMAIN a, j \in DOMAIN b :
           a[i][1] = b[j][1] =>
               /\ Len(a[i]) = Len(b[j])
               /\ IF Len(a[i]) = 3 THEN SameMapping(a[i][3], b[j][3])
                  ELSE a[i][2] = b[j][2]

\* C21: chain_next gives two payloads that are the same mapping, whatever
\* the insertion order of their keys at any level, the same digest, and
\* gives the same inputs the same digest again.
C21_KeyOrderIndependent ==
    calc.op = "hashed"
    => /\ SameMapping(calc.a, calc.b) => calc.hash_a = calc.hash_b
       /\ calc.again_a = calc.hash_a

\* two payloads that differ in insertion order at the top and in a nested
\* dict have been hashed
C21_Witness ==
    /\ calc.op = "hashed"
    /\ SameMapping(calc.a, calc.b)
    /\ Len(calc.a) = 3
    /\ calc.a[1][1] /= calc.b[1][1]
    /\ \E i, j \in DOMAIN calc.a :
           /\ Len(calc.a[i]) = 3 /\ Len(calc.b[j]) = 3
           /\ calc.a[i][3] /= calc.b[j][3]

\* the dict holds a non-finite float
HasNonFinite(items) == \E i \in DOMAIN items : items[i][2] = "float nan"

\* C22: two details that are not the same mapping never encode to the same
\* bytes, and a details with a non-finite float is rejected, not encoded.
C22_EncodingInjective ==
    calc.op = "hashed"
    => /\ ~SameMapping(calc.a, calc.b) => calc.bytes_a /= calc.bytes_b
       /\ HasNonFinite(calc.a) => ~calc.accepted_a

\* C22 for details that hold no non-finite float
C22_InjectiveOnFinite ==
    (calc.op = "hashed" /\ ~HasNonFinite(calc.a) /\ ~HasNonFinite(calc.b))
    => (~SameMapping(calc.a, calc.b) => calc.bytes_a /= calc.bytes_b)

StatusValues == {"ok", "error"}

\* C23: a call whose status is not "ok" or "error" raises with files, store
\* and cache as it found them, and never gets as far as a write or a
\* return; every line of a file and every row of the store has a status in
\* {ok, error}.
C23_StatusClosedSet ==
    /\ \A t \in Threads :
           /\ (outcome[t].kind = "raised" /\ outcome[t].at = "validate")
              => outcome[t].after = outcome[t].before
           /\ th[t].pc \in {"file", "store", "cache"}
              => th[t].event.status \in StatusValues
           /\ outcome[t].kind = "returned" => outcome[t].event.status \in StatusValues
    /\ \A d \in Dirs : \A i \in DOMAIN files[d] :
           files[d][i].kind = "json" => files[d][i].text.status \in StatusValues
    /\ \A r \in store : r.status \in StatusValues

\* a call with status "warn" has raised on a ledger that holds an event
C23_Witness ==
    /\ outcome["t1"].kind = "raised"
    /\ outcome["t1"].at = "validate"
    /\ outcome["t1"].before.store /= {}
    /\ \E d \in Dirs : files[d] /= <<>>

\* C24: no line of a file and no row of the store has the run_id "".
C24_RunIdNonEmpty ==
    /\ \A d \in Dirs : \A i \in DOMAIN files[d] :
           files[d][i].kind = "json" => files[d][i].text.run_id /= ""
    /\ \A r \in store : r.run_id /= ""

RECURSIVE InIdOrder(_)
\* rows in ascending id order
InIdOrder(rows) ==
    IF rows = {} THEN <<>>
    ELSE LET first == CHOOSE r \in rows : \A q \in rows : r.id <= q.id
         IN  <<first>> \o InIdOrder(rows \ {first})

HashPair(e) == <<e.prev_event_hash, e.event_hash>>

\* the (prev_event_hash, event_hash) pairs of the run's file, in line order
FilePairs(run_id) ==
    LET file == FileOf(run_id)
    IN  [i \in DOMAIN file |-> HashPair(file[i].text)]

\* the pairs of the run's rows, in row-id order
StorePairs(run_id) ==
    LET rows == InIdOrder(RowsOf(store, run_id))
    IN  [i \in DOMAIN rows |-> HashPair(rows[i])]

\* C25: after any sequence of successful sequential calls, for each run_id
\* the pairs read from its file equal the pairs read from its rows.
C25_CrossCheckable ==
    AllIdle => \A run_id \in AnyRunIds : FilePairs(run_id) = StorePairs(run_id)

\* C25 for the run ids none of which names the directory of another
C25_CrossCheckableApart ==
    AllIdle => \A run_id \in RunIds : FilePairs(run_id) = StorePairs(run_id)

\* thread t's call ends in this step by raising at the given place
RaisesAt(t, at) ==
    /\ th'[t] = Idle
    /\ outcome'[t].kind = "raised"
    /\ outcome'[t].at = at

\* C26: a call makes one attempt to append its line and one attempt to
\* insert its row: the step at the file either appends the line and goes on
\* to the store or raises, the step at the store either inserts the row and
\* goes on or raises, and no step leads back to either.
C26_NoRetryNoSwallow ==
    [][\A t \in Threads :
          /\ (th[t].pc = "file" /\ th'[t] /= th[t])
             => \/ /\ th'[t].pc = "store"
                   /\ Len(files'[artifacts_dir_for(th[t].run_id)])
                          = Len(files[artifacts_dir_for(th[t].run_id)]) + 1
                \/ RaisesAt(t, "file") /\ files' = files
          /\ (th[t].pc = "store" /\ th'[t] /= th[t])
             => \/ /\ th'[t].pc = "cache"
                   /\ Cardinality(store') = Cardinality(store) + 1
                \/ RaisesAt(t, "store") /\ store' = store
          /\ th[t].pc = "cache" => files' = files /\ store' = store]_vars

\* a second call has raised at the store: its line is in the file, no row
\* is in the store
C26_Witness ==
    /\ outcome["t1"].kind = "raised"
    /\ outcome["t1"].at = "store"
    /\ \E d \in Dirs : Len(files[d]) = 1
    /\ store = {}
    /\ nstarted >= 2

\* C28: sequential upsert_job calls with the same (url, content_hash), under
\* whatever run_ids, return the same id, the id of the one jobs row of that
\* pair.
C28_UpsertIdempotent ==
    \A i \in DOMAIN upserts :
        LET c == upserts[i]
        IN  /\ \A j \in DOMAIN upserts :
                   (upserts[j].url = c.url /\ upserts[j].content_hash = c.content_hash)
                   => upserts[j].id = c.id
            /\ Cardinality(JobsWith(jobs, c.url, c.content_hash)) = 1
            /\ \E r \in JobsWith(jobs, c.url, c.content_hash) : r.id = c.id

\* three calls, two of them with one pair under different run_ids
C28_Witness ==
    /\ Len(upserts) = 3
    /\ Cardinality(jobs) = 2
    /\ \E i, j \in DOMAIN upserts :
           /\ i /= j
           /\ upserts[i].url = upserts[j].url
           /\ upserts[i].content_hash = upserts[j].content_hash
           /\ upserts[i].run_id /= upserts[j].run_id

\* the steps of the run's audit log, in order
NavSteps == [i \in 1..Len(nav.log) |-> nav.log[i].step]

\* the last line of the run's audit log
NavLast == nav.log[Len(nav.log)]

NavLogged(step) == \E i \in 1..Len(nav.log) : nav.log[i].step = step

RECURSIVE IsSubsequence(_, _)
IsSubsequence(sub, seq) ==
    IF sub = <<>> THEN TRUE
    ELSE IF seq = <<>> THEN FALSE
    ELSE IF Head(sub) = Head(seq) THEN IsSubsequence(Tail(sub), Tail(seq))
    ELSE IsSubsequence(sub, Tail(seq))

RequiredSteps(screenshots) ==
    <<"run_started", "navigate.fetch_html", "detect_platform.url_pattern",
      "detect_platform.dom_probe">>
    \o (IF screenshots THEN <<"artifact.screenshot">> ELSE <<>>)
    \o <<"extract.fields", "normalize.fields", "persist.json", "persist.sqlite",
         "run_finished">>

\* C27: when NavigatorAgent.run has returned normally, the run's audit log
\* starts with run_started, ends with run_finished of status ok, and holds
\* between them navigate.fetch_html, detect_platform.url_pattern,
\* detect_platform.dom_probe, extract.fields, normalize.fields, persist.json
\* and persist.sqlite in that order, with artifact.screenshot (after the
\* probe, before the extraction) when screenshots are enabled.
C27_ReturnedRunSteps ==
    nav.pc = "returned" =>
        /\ Head(nav.log).step = "run_started"
        /\ NavLast = [step |-> "run_finished", status |-> "ok"]
        /\ IsSubsequence(RequiredSteps(nav.screenshots), NavSteps)

\* a run with screenshots enabled has returned
C27_Witness ==
    /\ nav.pc = "returned"
    /\ nav.screenshots
    /\ NavLogged("artifact.screenshot")

\* a login gate was detected in a run on a fixture with manual login allowed
NavFixtureGate ==
    /\ nav.pc /= "off"
    /\ nav.fixture
    /\ nav.allow_manual
    /\ NavLogged("auth.required")

NavNoManualWait ==
    /\ ~NavLogged("auth.logged_in_marker")
    /\ ~NavLogged("auth.session_saved")

\* C29: in a run on a fixture with manual login allowed, once a login gate
\* has logged auth.required the log never holds auth.logged_in_marker or
\* auth.session_saved, and the run goes on to return with extract.fields
\* and run_finished logged.
C29_FixtureGateContinues ==
    /\ [](NavFixtureGate => NavNoManualWait)
    /\ (NavFixtureGate ~> (/\ nav.pc = "returned"
                           /\ NavLogged("extract.fields")
                           /\ NavLast.step = "run_finished"
                           /\ NavNoManualWait))

\* such a run has returned
C29_Witness ==
    /\ NavFixtureGate
    /\ nav.pc = "returned"
    /\ NavLogged("extract.fields")

LlmCallSteps == {"llm.assist.request", "llm.assist.response",
                 "llm.assist.discarded", "llm.assist.error"}

\* C30: in a run with LLM assist disabled (by the configuration or by the
\* agent's override) the log holds no
\* llm.assist.request, llm.assist.response, llm.assist.discarded or
\* llm.assist.error, and the event that follows extract.fields is
\* llm.assist.skipped (run_failed when the run raised right there); a run
\* that has gone past that point or returned has logged llm.assist.skipped.
C30_DisabledLlmSkipped ==
    (nav.pc /= "off" /\ ~llm_enabled(nav)) =>
        /\ \A i \in 1..Len(nav.log) : nav.log[i].step \notin LlmCallSteps
        /\ \A i \in 1..Len(nav.log) :
               nav.log[i].step = "extract.fields" =>
                   IF i < Len(nav.log)
                     THEN nav.log[i + 1].step \in {"llm.assist.skipped", "run_failed"}
                     ELSE nav.pc \in {"extracted", "except", "raised"}
        /\ nav.pc \in {"normalize", "json", "sqlite", "finish", "returned"}
               => NavLogged("llm.assist.skipped")

\* a run with LLM assist disabled by the agent's override alone has
\* returned, llm.assist.skipped right after extract.fields
C30_Witness ==
    /\ nav.pc = "returned"
    /\ nav.llm_config
    /\ ~nav.llm_override
    /\ \E i \in 1..(Len(nav.log) - 1) :
           /\ nav.log[i].step = "extract.fields"
           /\ nav.log[i + 1].step = "llm.assist.skipped"

\* ------------------------------------------------------- claims C31 .. C40
\* the event_hash values of the lines of a file
LineHashes(file) == {file[i].text.event_hash : i \in DOMAIN file}

RowHashes(rows, run_id) == {r.event_hash : r \in RowsOf(rows, run_id)}

\* the call of thread t was cut short between the file append and the
\* store insert, on a run whose file verified and matched its rows
CrashedBetweenWrites(t) ==
    /\ outcome[t].kind = "crashed"
    /\ outcome[t].at = "store"
    /\ LET cr == outcome[t]
           old == cr.before.files[artifacts_dir_for(cr.run_id)]
           res == verify_chain(old)
       IN  /\ res.outcome = "return" /\ res.valid
           /\ LineHashes(old) = RowHashes(cr.before.store, cr.run_id)

\* the call of thread u is the next one for the run of the crashed call of
\* thread t, and it has returned: its line follows the orphaned line
NextAfterCrash(t, u) ==
    /\ outcome[u].kind = "returned"
    /\ outcome[u].run_id = outcome[t].run_id
    /\ FileOf(outcome[t].run_id) =
           Append(outcome[t].after.files[artifacts_dir_for(outcome[t].run_id)],
                  JsonLine(OrjsonDumps(outcome[u].event)))

\* the file and the rows the crashed call left, and the new event built on
\* the store's last hash
CrashLeavesOrphan(t, u) ==
    LET cr == outcome[t]
        d == artifacts_dir_for(cr.run_id)
        X == cr.event[1]
        last == get_last_audit_hash(cr.after.store, cr.run_id)
    IN  /\ cr.after.store = cr.before.store
        /\ cr.after.files[d] = Append(cr.before.files[d], JsonLine(OrjsonDumps(X)))
        /\ LineHashes(cr.after.files[d]) \ RowHashes(cr.after.store, cr.run_id)
               = {X.event_hash}
        /\ outcome[u].event.prev_event_hash
               = (IF last = <<>> THEN EmptyStr ELSE last[1])
        /\ outcome[u].event.prev_event_hash /= X.event_hash

\* C31: after a crash between the file append and the store insert the
\* run's file holds exactly one event the store lacks; the next log_event
\* for the run, on a new instance, takes the store's last event_hash as
\* prev_event_hash, and verify_chain on the file then returns valid=false
\* with break_index at the line of that new event.
C31_CrashForksFile ==
    \A t, u \in Threads :
        (CrashedBetweenWrites(t) /\ NextAfterCrash(t, u)) =>
            /\ CrashLeavesOrphan(t, u)
            /\ LET file == FileOf(outcome[t].run_id)
                   res == verify_chain(file)
               IN  /\ res.outcome = "return"
                   /\ ~res.valid
                   /\ res.break_index = <<Len(file) - 1>>

\* C31 for events whose lines hold no line separator
C31_CrashForksReadableFile ==
    \A t, u \in Threads :
        (/\ CrashedBetweenWrites(t)
         /\ NextAfterCrash(t, u)
         /\ \A i \in DOMAIN FileOf(outcome[t].run_id) :
                ~HasLineSep(FileOf(outcome[t].run_id)[i].text)) =>
            /\ CrashLeavesOrphan(t, u)
            /\ LET file == FileOf(outcome[t].run_id)
                   res == verify_chain(file)
               IN  /\ res.outcome = "return"
                   /\ ~res.valid
                   /\ res.break_index = <<Len(file) - 1>>

\* a first event is persisted, the second call is cut short between the
\* writes, and the next call for the run has returned
C31_Reached ==
    /\ CrashedBetweenWrites("t1")
    /\ NextAfterCrash("t1", "t2")
    /\ Len(FileOf(outcome["t1"].run_id)) = 3

\* the event_hash of the run's most recently persisted event, "" if none
LatestPersisted(rows, run_id) ==
    LET last == get_last_audit_hash(rows, run_id)
    IN  IF last = <<>> THEN EmptyStr ELSE last[1]

\* C32: when instances log for one run strictly one call after another,
\* every new event's prev_event_hash is the event_hash of the run's most
\* recently persisted event.
C32_LinksToLatest ==
    \A t \in Threads :
        th[t].pc = "file" =>
            th[t].event.prev_event_hash = LatestPersisted(store, th[t].run_id)

\* C32 for the calls that miss the cache of their instance
C32_MissLinksToLatest ==
    \A t \in Threads :
        (th[t].pc = "file" /\ th[t].recovered) =>
            th[t].event.prev_event_hash = LatestPersisted(store, th[t].run_id)

\* the run's file holds a line with this event_hash
InFile(run_id, event_hash) ==
    \E i \in DOMAIN FileOf(run_id) : FileOf(run_id)[i].text.event_hash = event_hash

\* C33: in every state, also after a call failed or the process stopped at
\* any step of log_event, each row of the store has a line with its
\* event_hash in the file of its run, and each cache entry is the
\* event_hash of a row and of a line of its run.
C33_StoreNeverAhead ==
    /\ \A r \in store : InFile(r.run_id, r.event_hash)
    /\ \A a \in Agents : \A run_id \in DOMAIN cache[a] :
           /\ cache[a][run_id] \in RowHashes(store, run_id)
           /\ InFile(run_id, cache[a][run_id])

\* the process stopped between the file append and the store insert of a
\* run that has rows: the file is one line ahead of the store
C33_Witness ==
    \E t \in Threads :
        /\ outcome[t].kind = "crashed"
        /\ outcome[t].at = "store"
        /\ RowsOf(store, outcome[t].run_id) /= {}
        /\ InFile(outcome[t].run_id, outcome[t].event[1].event_hash)
        /\ outcome[t].event[1].event_hash \notin RowHashes(store, outcome[t].run_id)

\* a call for the run is between the store insert and the cache update
Committing(a, run_id) ==
    \E t \in Threads :
        th[t].pc = "cache" /\ th[t].agent = a /\ th[t].run_id = run_id

\* C34: with one instance as the only writer of a run_id, calls one after
\* another, an entry of its cache for the run_id is the event_hash of the
\* store's latest row of the run_id whenever no call is between its insert
\* and its cache update, also after calls that raised.
C34_CacheCoherent ==
    \A a \in Agents : \A run_id \in DOMAIN cache[a] :
        ~Committing(a, run_id) =>
            cache[a][run_id] = LatestPersisted(store, run_id)

\* a call for a run with a cache entry has raised at the store insert: its
\* line is the second of the file, and the entry is still the event_hash of
\* the store's latest row
C34_Witness ==
    /\ outcome["t1"].kind = "raised"
    /\ outcome["t1"].at = "store"
    /\ th["t1"].pc = "idle"
    /\ outcome["t1"].run_id \in DOMAIN cache["a1"]
    /\ cache["a1"][outcome["t1"].run_id]
           = LatestPersisted(store, outcome["t1"].run_id)
    /\ Len(FileOf(outcome["t1"].run_id)) = 2

\* NavigatorAgent.run has ended by raising, after create_run
NavRaised == nav.pc = "raised"

\* C35: when NavigatorAgent.run ends with an exception after the run was
\* created, run_failed with status error is the last event of the run's
\* log, the run's row has status error with the message of the exception,
\* and that exception is what the caller gets.
C35_FailureRecorded ==
    NavRaised =>
        /\ nav.log /= <<>>
        /\ NavLast = [step |-> "run_failed", status |-> "error"]
        /\ nav.row.status = "error"
        /\ nav.row.error_message = nav.exc

\* the handler of run has done its work: run_failed is logged, the row is
\* marked, the exception is on its way to the caller
C35_HandlerReached ==
    /\ NavRaised
    /\ nav.log /= <<>>
    /\ NavLast = [step |-> "run_failed", status |-> "error"]
    /\ nav.row.status = "error"
    /\ nav.row.error_message = <<"Exception">>

\* C36: when a NavigatorAgent.run call that created a run has ended, by
\* return or by exception, the run's row is terminal: its status is not
\* "running" and finished_at is set.
C36_RowTerminal ==
    nav.pc \in {"returned", "raised"} =>
        /\ nav.row.status /= "running"
        /\ nav.row.finished

\* the rows of the calls that returned, and of those whose handler ran to
\* its end, are terminal
C36_RowTerminalWhenHandled ==
    (\/ nav.pc = "returned"
     \/ nav.pc = "raised" /\ nav.log /= <<>> /\ NavLast.step = "run_failed") =>
        /\ nav.row.status /= "running"
        /\ nav.row.finished

\* C37: once a detected login gate with manual login disabled has marked
\* the run's row auth_required with error_message "Manual login disabled",
\* no later step of the call changes the row's status or error_message.
C37_AuthRequiredKept ==
    [][(nav.pc /= "off" /\ nav.row.status = "auth_required") =>
           /\ nav'.row.status = "auth_required"
           /\ nav'.row.error_message = <<"Manual login disabled">>]_vars

\* the row is marked auth_required at the moment RuntimeError is raised
C37_AuthRequiredSet ==
    (nav.pc = "except" /\ nav.exc = <<"RuntimeError">>) =>
        /\ nav.row.status = "auth_required"
        /\ nav.row.error_message = <<"Manual login disabled">>
        /\ nav.row.finished

\* the events (non-blank lines) among the first n lines of a file
EventsBefore(file, n) ==
    Cardinality({i \in DOMAIN file : i <= n /\ file[i].kind /= "blank"})

\* C38: verify_chain counts and indexes events, not lines: when it returns
\* valid=true, events is the number of events of the file, blank lines not
\* counted; when it returns valid=false, break_index is the number of
\* events before the first inconsistent one, and so is events.
C38_IndexesEvents ==
    (vstage = "verified" /\ vres.outcome = "return") =>
        IF vres.valid
          THEN vres.events = EventsBefore(vfile, Len(vfile))
          ELSE /\ vres.break_index = <<vres.events>>
               /\ \E i \in DOMAIN vfile :
                      /\ vfile[i].kind /= "blank"
                      /\ EventsBefore(vfile, i - 1) = vres.break_index[1]
                      /\ verify_chain(SubSeq(vfile, 1, i - 1)).valid
                      /\ ~verify_chain(SubSeq(vfile, 1, i)).valid

\* what verify_chain does report: events counts the events before the
\* break, break_index is the index of the line of the inconsistent event
C38_IndexesLines ==
    (vstage = "verified" /\ vres.outcome = "return") =>
        IF vres.valid
          THEN vres.events = EventsBefore(vfile, Len(vfile))
          ELSE /\ vres.break_index[1] + 1 \in DOMAIN vfile
               /\ vfile[vres.break_index[1] + 1].kind /= "blank"
               /\ vres.events = EventsBefore(vfile, vres.break_index[1])
               /\ verify_chain(SubSeq(vfile, 1, vres.break_index[1])).valid
               /\ ~verify_chain(SubSeq(vfile, 1, vres.break_index[1] + 1)).valid

\* C39: the verifier CLI is read-only: whatever --run names, a run
\* identifier without artifacts included, main makes no directory and
\* leaves every file and every row of the store as it was.
C39_ReadOnly ==
    (vstage = "verified" /\ cli.arg \in CliArgs) =>
        /\ ~cli.made
        /\ files = [d \in Dirs |-> <<>>]
        /\ store = {}

\* main makes nothing when --run names a directory, or a run identifier
\* whose run directory exists
C39_ReadOnlyOnExisting ==
    (/\ vstage = "verified"
     /\ \/ cli.arg = "dir"
        \/ cli.arg = "run_id" /\ cli.dir) =>
        /\ ~cli.made
        /\ files = [d \in Dirs |-> <<>>]
        /\ store = {}

\* C40: artifacts_dir_for is injective on run identifiers: two distinct
\* run_id strings never resolve to the same run directory, so no
\* audit.jsonl holds events of two run_ids.
C40_OneRunPerFile ==
    /\ \A t, u \in Threads :
           (InCall(t) /\ outcome[u].kind = "returned"
            /\ th[t].run_id /= outcome[u].run_id)
           => artifacts_dir_for(th[t].run_id) /= artifacts_dir_for(outcome[u].run_id)
    /\ \A d \in Dirs : \A i, j \in DOMAIN files[d] :
           files[d][i].text.run_id = files[d][j].text.run_id

====
